---- MODULE Spec2Model ----
(***************************************************************************)
(* Model of the spotloader download orchestrator (EASY_DW), its batch      *)
(* aggregators (DW_TRACK, DW_EPISODE, DW_ALBUM, DW_PLAYLIST), the          *)
(* process-wide active-download registry with its termination cleanup,     *)
(* the tag writer entry point (write_tags) and the deezloader playlist     *)
(* aggregator DeeLogin.download_playlistspo.                               *)
(*                                                                         *)
(* One run of the process is modelled: Init picks the request              *)
(* (Preferences) and the files already on disk, the actions are the steps  *)
(* of the sequential code between its suspension points (network reads,    *)
(* sleeps, external encoder runs), and a termination signal may arrive     *)
(* between any two steps.                                                  *)
(***************************************************************************)
EXTENDS Integers, Sequences, FiniteSets, TLC

\* ------------------------------------------------------------------ bounds
MaxItems == 2
MaxRetriesChoice == 2
\* the largest number of chunks of a stream written in real time
MaxChunks == 110
\* the largest duration of an item written in real time, in seconds
MaxDuration == 2
\* the largest number of entries of a final directory
MaxFiles == 2

\* ------------------------------------------------------- program constants
GLOBAL_MAX_RETRIES == 100
initial_retry_delay == 30
retry_delay_increase == 30
\* chunk_size of the real-time write loops, in bytes
chunk_size == 4096

\* ------------------------------------------------------------------- paths
\* A path is <<extension, item>>: the output path set_path resolves for an
\* item, the ".tmp" sibling used by the container normalization and the
\* path the encoder writes when a target format was requested.
NoPath == <<"none", 0>>
Items == 1..MaxItems
OutPath(i) == <<"ogg", i>>
TmpPath(i) == <<"tmp", i>>
ConvPath(i) == <<"mp3", i>>
Paths == {<<e, i>> : e \in {"ogg", "tmp", "mp3"}, i \in Items}

\* song_path.replace(".ogg", ".tmp")
TempName(p) == IF p[1] = "ogg" THEN <<"tmp", p[2]>> ELSE p

\* ------------------------------------------------------------------- files
\* audio: what the bytes are; fp: the (title, album) fingerprint embedded in
\* the tags (0 = no tags); ver: which metadata the tags were written from.
NoFile == [audio |-> "none", fp |-> 0, ver |-> "none"]
MkFile(a) == [audio |-> a, fp |-> 0, ver |-> "none"]
Exists(f, p) == f[p].audio # "none"
Remove(f, p) == [f EXCEPT ![p] = NoFile]
\* os.replace(src, dst)
OsReplace(f, src, dst) ==
    IF src = dst THEN f ELSE [f EXCEPT ![dst] = f[src], ![src] = NoFile]
AudioExt == {"ogg", "mp3"}

\* files a previous run may have left at an item's output path
PreStates == {"none", "same", "other"}
PreFile(i, s) ==
    CASE s = "none" -> NoFile
      [] s = "same" -> [audio |-> "old", fp |-> i, ver |-> "cur"]
      [] s = "other" -> [audio |-> "old", fp |-> i, ver |-> "old"]

\* ---------------------------------------------------------------- registry
\* The registry is the pair (ACTIVE_DOWNLOADS, CURRENT_DOWNLOAD).
Reg(a, c) == [active |-> a, current |-> c]

\* variant: the path becomes the current pointer without joining the set
register_pointer_only(r, p) == Reg(r.active, p)

register_active_download(r, p) == Reg(r.active \cup {p}, p)

\* variant: the current pointer is cleared whichever path is unregistered
unregister_clearing_current(r, p) == Reg(r.active \ {p}, NoPath)

unregister_active_download(r, p) ==
    IF p \in r.active
    THEN Reg(r.active \ {p}, IF r.current = p THEN NoPath ELSE r.current)
    ELSE r

\* variant: every registered file is removed, not only the current one
cleanup_all_active(f, r, lock) ==
    IF lock THEN [fs |-> f, reg |-> r, del |-> {}]
    ELSE [fs |-> [p \in DOMAIN f |-> IF p \in r.active THEN NoFile ELSE f[p]],
          reg |-> Reg({}, NoPath),
          del |-> {p \in r.active : Exists(f, p)}]

\* cleanup_active_downloads: result is the file system, the registry and the
\* set of paths the routine deleted.
cleanup_active_downloads(f, r, lock) ==
    IF lock THEN [fs |-> f, reg |-> r, del |-> {}]
    ELSE IF r.current # NoPath /\ Exists(f, r.current)
         THEN [fs |-> Remove(f, r.current),
               reg |-> unregister_active_download(r, r.current),
               del |-> {r.current}]
         ELSE [fs |-> f, reg |-> r, del |-> {}]

\* --------------------------------------------------------------- model data
\* Track(tags, song_path, ...): success defaults to True, was_skipped to False
Track(i, p) == [item |-> i, song_path |-> p, success |-> TRUE, was_skipped |-> FALSE]

VARIABLES
    preferences,        \* the request: mode, items, convert_to, max_retries, make_zip
    fs,                 \* path -> file
    registry,           \* ACTIVE_DOWNLOADS / CURRENT_DOWNLOAD
    CLEANUP_LOCK,
    GLOBAL_RETRY_COUNT,
    pc,                 \* position of the single thread
    idx,                \* item being processed (0 before the first)
    song_path,          \* EASY_DW.__song_path
    c_track,            \* EASY_DW.__c_track / __c_episode
    retries,            \* local retry counter
    retry_delay,
    conv_try,           \* 1 during the first __convert_audio call, 2 during the retry
    exc,                \* exception in flight ("none" when there is none)
    tracks,             \* result list of the aggregate
    failed_track_indices,
    zip_path,           \* the archive: whether it was made and from which results
    m3u,                \* lines of the playlist file
    events,             \* what the progress sink received
    net,                \* network calls made: <<item, kind>>
    hist,               \* observations: attempts, stages, what cleanup deleted
    rt                  \* locals of the real-time write loop and the clock

vars == <<preferences, fs, registry, CLEANUP_LOCK, GLOBAL_RETRY_COUNT, pc, idx,
          song_path, c_track, retries, retry_delay, conv_try, exc, tracks,
          failed_track_indices, zip_path, m3u, events, net, hist, rt>>

\* ------------------------------------------------------------------ helpers
\* the counts an event carries: none for the events of an item
NoCounts == [k \in {} |-> 0]

\* an event of an item. parent is the type of the parent block ("none": the
\* dictionary has no parent block); with a parent block the dictionary also
\* has current_track (preferences.track_number) and total_tracks
Ev(type, status, item, parent, a, b) ==
    [type |-> type, status |-> status, item |-> item, parent |-> parent, a |-> a,
     b |-> b,
     counts |-> IF parent = "none" THEN NoCounts
                ELSE [current_track |-> item, total_tracks |-> preferences.n]]

\* an event of an aggregate; counts is the record of the count keys of the
\* reported dictionary (total_tracks, successful_tracks, failed_tracks)
AggEv(type, status, counts) ==
    [type |-> type, status |-> status, item |-> 0, parent |-> "none", a |-> 0,
     b |-> 0, counts |-> counts]

Mode == preferences.mode
NItems == preferences.n
\* variant: no event gets a parent block
Parent_none == "none"

\* EASY_DW(..., parent=...): "album", "playlist" or none for a single item
Parent == IF Mode \in {"album", "playlist"} THEN Mode ELSE "none"
\* DW_TRACK and DW_PLAYLIST go through easy_dw, DW_ALBUM calls download_try
UsesEasy == Mode \in {"track", "playlist"}

Emit(e) == events' = Append(events, e)

\* track_exists(title, album): scan the final directory for an audio file
\* whose embedded title and album are those of the item
track_exists(f, i) ==
    \E p \in Paths : p[1] \in AudioExt /\ Exists(f, p) /\ f[p].fp = i

TagOutcomes == {"ok", "fail"}

\* variant: a failure of the format-specific writer reaches the caller
write_tags_raising(f, media, o) ==
    IF media.song_path = NoPath \/ ~Exists(f, media.song_path)
    THEN [fs |-> f, raised |-> FALSE]
    ELSE IF o = "ok"
         THEN [fs |-> [f EXCEPT ![media.song_path].fp = media.item,
                                ![media.song_path].ver = "cur"],
               raised |-> FALSE]
         ELSE [fs |-> f, raised |-> TRUE]

\* write_tags(media) with the outcome of the format-specific writer; the
\* result says what is on disk afterwards and whether the call raised
write_tags(f, media, o) ==
    IF media.song_path = NoPath \/ ~Exists(f, media.song_path)
    THEN [fs |-> f, raised |-> FALSE]
    ELSE IF o = "ok"
         THEN [fs |-> [f EXCEPT ![media.song_path].fp = media.item,
                                ![media.song_path].ver = "cur"],
               raised |-> FALSE]
         ELSE [fs |-> f, raised |-> FALSE]

\* observations kept beside the program state: acquisition attempts of the
\* current item, the disk when the item started, what the cleanup routine
\* deleted, the output files of completed items, failures seen in the item,
\* where the thread was and what the current pointer was when the cleanup
\* routine ran, the items whose download raised, whether create_zip raised,
\* the duration of the last sleep of the current item (0: none yet), the
\* statuses of the records written to standard output with print
Hist0 ==
    [attempts |-> 0, fs0 |-> fs, del |-> {}, done |-> {}, wfail |-> FALSE,
     tfail |-> FALSE, tagfail |-> FALSE, tagged |-> {}, sigpc |-> "none",
     sigcur |-> NoPath, raised |-> {}, zipfail |-> FALSE, slept |-> 0,
     printed |-> {}]

\* per-item part of the observations is reset when an item starts
HistItem(h, f) ==
    [h EXCEPT !.attempts = 0, !.fs0 = f, !.wfail = FALSE, !.tfail = FALSE,
              !.tagfail = FALSE, !.tagged = {}, !.slept = 0]

\* the real-time write loop is not running (the stream is written in bulk)
RtIdle ==
    [total_size |-> 0, duration |-> 0, bytes_written |-> 0, start_time |-> 0,
     now |-> 0, last_reported_percentage |-> -1, paced |-> FALSE, slow |-> FALSE]

\* -------------------------------------------------------------------- Init
\* the request descriptor. meta[i] is the kind of the metadata of item i,
\* image[i] the value under its "image" key: the cover's URL as the metadata
\* has it at first, or the bytes of the cover. The metadata of an album is one
\* dictionary, so its image is the same for every item. The retry budget is
\* varied for single items and albums; playlists run with a budget of two,
\* the smallest with which an item can fail below its own budget.
Prefs ==
    [mode : {"track", "episode"}, n : {1}, convert_to : BOOLEAN,
     max_retries : 1..MaxRetriesChoice, make_zip : {FALSE},
     meta : [1..1 -> {"meta"}], image : {[i \in 1..1 |-> "url"]}]
    \cup
    UNION {[mode : {"album"}, n : {k}, convert_to : BOOLEAN,
            max_retries : 1..MaxRetriesChoice, make_zip : BOOLEAN,
            meta : [1..k -> {"meta"}],
            image : {[i \in 1..k |-> "url"]}] : k \in 1..MaxItems}
    \cup
    UNION {[mode : {"playlist"}, n : {k}, convert_to : BOOLEAN,
            max_retries : {2}, make_zip : BOOLEAN,
            meta : [1..k -> {"meta", "str"}],
            image : {[i \in 1..k |-> "url"]}] : k \in 1..MaxItems}
    \cup
    UNION {[mode : {"playlistspo"}, n : {k}, convert_to : {FALSE},
            max_retries : {1}, make_zip : BOOLEAN,
            meta : [1..k -> {"meta", "invalid"}],
            image : {[i \in 1..k |-> "url"]}] : k \in 1..MaxItems}

\* the playlist file a previous run of the same playlist may have left
PreM3u == {<<>>, <<"#EXTM3U", OutPath(1)>>}

Init ==
    /\ preferences \in Prefs
    /\ \E pre \in [Items -> PreStates] :
          /\ \A i \in Items :
                (i > preferences.n \/ preferences.meta[i] # "meta") => pre[i] = "none"
          /\ fs = [p \in Paths |->
                     IF p[1] = "ogg" THEN PreFile(p[2], pre[p[2]]) ELSE NoFile]
    /\ registry = Reg({}, NoPath)
    /\ CLEANUP_LOCK = FALSE
    /\ GLOBAL_RETRY_COUNT \in {0, GLOBAL_MAX_RETRIES - 1}
    /\ pc = "begin"
    /\ idx = 0
    /\ song_path = NoPath
    /\ c_track = Track(0, NoPath)
    /\ retries = 0
    /\ retry_delay = initial_retry_delay
    /\ conv_try = 1
    /\ exc = "none"
    /\ tracks = <<>>
    /\ failed_track_indices = <<>>
    /\ zip_path = [made |-> FALSE, items |-> <<>>]
    /\ m3u \in IF Mode \in {"playlist", "playlistspo"} THEN PreM3u ELSE {<<>>}
    /\ events = <<>>
    /\ net = {}
    /\ hist = Hist0
    /\ rt = RtIdle

\* ------------------------------------------------- orchestrator: download_try
\* what a write_tags call adds to the observations
TagObs(h, f, media, o) ==
    [h EXCEPT !.tagged = IF media.song_path # NoPath /\ Exists(f, media.song_path)
                         THEN @ \cup {media.song_path} ELSE @,
              !.tagfail = @ \/ (o = "fail" /\ media.song_path # NoPath
                                /\ Exists(f, media.song_path))]

\* easy_dw, up to the call of download_try: fetch the cover image and store
\* its bytes under the "image" key of the item's metadata, report the
\* initial progress event
EasyDwBegin ==
    /\ UNCHANGED rt
    /\ pc = "easy"
    /\ net' = net \cup {<<idx, "image">>}
    /\ \E ok \in BOOLEAN :
          IF ok
          THEN /\ preferences' = [preferences EXCEPT !.image[idx] = "bytes"]
               /\ Emit(Ev("track", "progress", idx, Parent, 0, 0))
               /\ pc' = "check"
               /\ exc' = exc
          ELSE /\ preferences' = preferences
               /\ pc' = "item_exc"
               /\ exc' = "Image"
               /\ events' = events
    /\ UNCHANGED <<fs, registry, CLEANUP_LOCK, GLOBAL_RETRY_COUNT, idx,
                   song_path, c_track, retries, retry_delay, conv_try, tracks,
                   failed_track_indices, zip_path, m3u, hist>>

\* download_try, existence check: a match reports "skipped" and returns the
\* track marked success=False, was_skipped=True; easy_dw then calls write_tags
\* on the returned track. No match: the retry parameters are read and the
\* "progress" event is reported.
CheckExistence ==
    /\ UNCHANGED rt
    /\ pc = "check"
    /\ IF track_exists(fs, idx)
       THEN /\ Emit(Ev("track", "skipped", idx, Parent, 0, 0))
            /\ c_track' = [c_track EXCEPT !.success = FALSE, !.was_skipped = TRUE]
            /\ IF UsesEasy
               THEN \E o \in TagOutcomes :
                      LET r == write_tags(fs, c_track', o) IN
                        /\ fs' = r.fs
                        /\ hist' = TagObs(hist, fs, c_track', o)
                        /\ IF r.raised
                           THEN pc' = "item_exc" /\ exc' = "Tagging"
                           ELSE pc' = "item_ret" /\ exc' = exc
               ELSE /\ pc' = "item_ret"
                    /\ UNCHANGED <<fs, hist, exc>>
            /\ UNCHANGED <<retries, retry_delay>>
       ELSE /\ retries' = 0
            /\ retry_delay' = initial_retry_delay
            /\ Emit(Ev("track", "progress", idx, Parent, 0, 0))
            /\ pc' = "acquire"
            /\ UNCHANGED <<c_track, fs, hist, exc>>
    /\ UNCHANGED <<preferences, registry, CLEANUP_LOCK, GLOBAL_RETRY_COUNT, idx,
                   song_path, conv_try, tracks, failed_track_indices, zip_path,
                   m3u, net>>

\* variant: only the local cap is tested
CapReached_local(r, g, m) == r >= m

\* variant: the local cap compared with > (one attempt too many)
CapReached_gt(r, g, m) == r > m \/ g >= GLOBAL_MAX_RETRIES

\* if retries >= max_retries or GLOBAL_RETRY_COUNT >= GLOBAL_MAX_RETRIES
CapReached(r, g, m) == r >= m \/ g >= GLOBAL_MAX_RETRIES

\* the content feeder answered: the output path is registered and opened
AcquireOk ==
    /\ UNCHANGED rt
    /\ pc = "acquire"
    /\ Mode # "episode"
    /\ net' = net \cup {<<idx, "stream">>}
    /\ hist' = [hist EXCEPT !.attempts = @ + 1]
    /\ registry' = register_active_download(registry, song_path)
    /\ fs' = [fs EXCEPT ![song_path] = MkFile("partial")]
    /\ pc' = "write"
    /\ UNCHANGED <<preferences, CLEANUP_LOCK, GLOBAL_RETRY_COUNT, idx, song_path,
                   c_track, retries, retry_delay, conv_try, exc, tracks,
                   failed_track_indices, zip_path, m3u, events>>

\* the content feeder raised: count the retry, drop any file at the output
\* path, report "retrying", give up at either cap
AcquireFail ==
    /\ UNCHANGED rt
    /\ pc = "acquire"
    /\ Mode # "episode"
    /\ net' = net \cup {<<idx, "stream">>}
    /\ hist' = [hist EXCEPT !.attempts = @ + 1]
    /\ GLOBAL_RETRY_COUNT' = GLOBAL_RETRY_COUNT + 1
    /\ retries' = retries + 1
    /\ fs' = Remove(fs, song_path)
    /\ registry' = unregister_active_download(registry, song_path)
    /\ Emit(Ev("track", "retrying", idx, Parent, retries', retry_delay))
    /\ IF CapReached(retries', GLOBAL_RETRY_COUNT', preferences.max_retries)
       THEN pc' = "item_exc" /\ exc' = "MaxRetries"
       ELSE pc' = "retry_wait" /\ exc' = exc
    /\ UNCHANGED <<preferences, CLEANUP_LOCK, idx, song_path, c_track, retry_delay,
                   conv_try, tracks, failed_track_indices, zip_path, m3u>>

\* variant: the delay is not increased
NextDelay_same(d) == d

\* retry_delay += retry_delay_increase
NextDelay(d) == d + retry_delay_increase

\* time.sleep(retry_delay); retry_delay += retry_delay_increase
RetrySleep ==
    /\ UNCHANGED rt
    /\ pc = "retry_wait"
    /\ hist' = [hist EXCEPT !.slept = retry_delay]
    /\ retry_delay' = NextDelay(retry_delay)
    /\ pc' = "acquire"
    /\ UNCHANGED <<preferences, fs, registry, CLEANUP_LOCK, GLOBAL_RETRY_COUNT, idx,
                   song_path, c_track, retries, conv_try, exc, tracks,
                   failed_track_indices, zip_path, m3u, events, net>>

\* the stream was written in full: close, unregister, leave the retry loop
WriteOk ==
    /\ UNCHANGED rt
    /\ pc = "write"
    /\ Mode # "episode"
    /\ fs' = [fs EXCEPT ![song_path] = MkFile("raw")]
    /\ registry' = unregister_active_download(registry, song_path)
    /\ conv_try' = 1
    /\ pc' = "convert"
    /\ UNCHANGED <<preferences, CLEANUP_LOCK, GLOBAL_RETRY_COUNT, idx, song_path,
                   c_track, retries, retry_delay, exc, tracks, failed_track_indices,
                   zip_path, m3u, events, net, hist>>

\* an exception while writing: the inner handler removes the partial file and
\* unregisters the path; it does not re-raise, so control falls through to
\* the unregister and break below it
WriteFail ==
    /\ UNCHANGED rt
    /\ pc = "write"
    /\ Mode # "episode"
    /\ fs' = Remove(fs, song_path)
    /\ registry' = unregister_active_download(registry, song_path)
    /\ hist' = [hist EXCEPT !.wfail = TRUE]
    /\ conv_try' = 1
    /\ pc' = "convert"
    /\ UNCHANGED <<preferences, CLEANUP_LOCK, GLOBAL_RETRY_COUNT, idx, song_path,
                   c_track, retries, retry_delay, exc, tracks, failed_track_indices,
                   zip_path, m3u, events, net>>

\* ------------------------------------------------------- conversion pipeline
\* The handler around a __convert_audio call in download_try / download_eps,
\* entered with the disk f and registry r the failed call left behind: the
\* first failure reports an error (tracks only), removes the file at the
\* output path and sleeps before the single retry; the second reports again,
\* removes and raises.
\* variant: the handler leaves the file at the output path in place
ConvRaised_keep(f, r) ==
    /\ fs' = f
    /\ registry' = r
    /\ IF Mode = "episode"
       THEN events' = events
       ELSE Emit(Ev("track", "error", idx, Parent, conv_try, 0))
    /\ IF conv_try = 1
       THEN pc' = "conv_wait" /\ exc' = exc
       ELSE pc' = "item_exc" /\ exc' = "Conversion"

ConvRaised(f, r) ==
    /\ fs' = Remove(f, song_path)
    /\ registry' = r
    /\ IF Mode = "episode"
       THEN events' = events
       ELSE Emit(Ev("track", "error", idx, Parent, conv_try, 0))
    /\ IF conv_try = 1
       THEN pc' = "conv_wait" /\ exc' = exc
       ELSE pc' = "item_exc" /\ exc' = "Conversion"

\* __convert_audio, first statements: move the streamed file to the temp
\* name and register the temp name. os.replace raises when there is no file
\* at the output path; that is outside the try block of __convert_audio.
ConvertBegin ==
    /\ UNCHANGED rt
    /\ pc = "convert"
    /\ IF Exists(fs, song_path)
       THEN /\ fs' = OsReplace(fs, song_path, TempName(song_path))
            /\ registry' = register_active_download(registry, TempName(song_path))
            /\ pc' = "normalizing"
            /\ UNCHANGED <<events, exc>>
       ELSE ConvRaised(fs, registry)
    /\ UNCHANGED <<preferences, CLEANUP_LOCK, GLOBAL_RETRY_COUNT, idx, song_path,
                   c_track, retries, retry_delay, conv_try, tracks,
                   failed_track_indices, zip_path, m3u, net, hist>>

\* convert_audio(input, format, bitrate, register, unregister), first half:
\* the output path is registered and the encoder starts writing it
convert_audio_start(f, r, out) ==
    [fs |-> [f EXCEPT ![out] = MkFile("partial")],
     reg |-> register_active_download(r, out)]

\* convert_audio, second half. Success: the encoded file is at the output
\* path, the input is removed and unregistered, the output path is returned.
\* Failure: the partial output is removed and unregistered, and it raises.
convert_audio_end(f, r, in, out, o) ==
    IF o = "ok"
    THEN [fs |-> Remove([f EXCEPT ![out] = MkFile("enc")], in),
          reg |-> unregister_active_download(r, in),
          path |-> out, raised |-> FALSE]
    ELSE [fs |-> Remove(f, out),
          reg |-> unregister_active_download(r, out),
          path |-> in, raised |-> TRUE]

\* the external container copy has finished. "ok": the normalized file is at
\* the output path; "nonzero": the copy failed and wrote nothing (os.system
\* does not raise); "raise": an exception inside the try block.
NormalizeOutcomes == {"ok", "nonzero", "raise"}
Normalize ==
    /\ UNCHANGED rt
    /\ pc = "normalizing"
    /\ \E o \in NormalizeOutcomes :
        LET temp == TempName(song_path)
            f1 == IF o = "ok" THEN [fs EXCEPT ![song_path] = MkFile("norm")] ELSE fs
            \* register the output, remove and unregister the temp file
            r1 == register_active_download(registry, song_path)
            f2 == Remove(f1, temp)
            r2 == IF Exists(f1, temp) THEN unregister_active_download(r1, temp) ELSE r1
            \* except branch: restore the temp file when the output is missing
            f3 == IF Exists(fs, temp) /\ ~Exists(fs, song_path)
                  THEN OsReplace(fs, temp, song_path) ELSE fs
            f4 == Remove(f3, temp)
            r4 == IF Exists(f3, temp) THEN unregister_active_download(registry, temp)
                  ELSE registry
            st == convert_audio_start(f2, r2, ConvPath(idx))
        IN IF o = "raise"
           THEN ConvRaised(f4, r4)
           ELSE /\ IF preferences.convert_to
                   THEN fs' = st.fs /\ registry' = st.reg /\ pc' = "transcoding"
                   ELSE fs' = f2 /\ registry' = r2 /\ pc' = "tag"
                /\ UNCHANGED <<events, exc>>
    /\ UNCHANGED <<preferences, CLEANUP_LOCK, GLOBAL_RETRY_COUNT, idx, song_path,
                   c_track, retries, retry_delay, conv_try, tracks,
                   failed_track_indices, zip_path, m3u, net, hist>>

\* the encoder has finished. A failure is caught inside __convert_audio
\* ("log conversion error but continue with original file"): the call
\* returns normally either way.
Transcode ==
    /\ UNCHANGED rt
    /\ pc = "transcoding"
    /\ \E o \in {"ok", "raise"} :
        /\ o = "ok" => Exists(fs, song_path)
        /\ LET r == convert_audio_end(fs, registry, song_path, ConvPath(idx), o) IN
            /\ fs' = r.fs
            /\ registry' = r.reg
            /\ IF r.raised
               THEN /\ hist' = [hist EXCEPT !.tfail = TRUE]
                    /\ UNCHANGED <<song_path, c_track>>
               ELSE /\ song_path' = r.path
                    /\ c_track' = [c_track EXCEPT !.song_path = r.path]
                    /\ hist' = hist
    /\ pc' = "tag"
    /\ UNCHANGED <<preferences, CLEANUP_LOCK, GLOBAL_RETRY_COUNT, idx, retries,
                   retry_delay, conv_try, exc, tracks, failed_track_indices,
                   zip_path, m3u, events, net>>

\* time.sleep(retry_delay) before the second __convert_audio call
ConvWait ==
    /\ UNCHANGED rt
    /\ pc = "conv_wait"
    /\ hist' = [hist EXCEPT !.slept = retry_delay]
    /\ retry_delay' = NextDelay(retry_delay)
    /\ conv_try' = 2
    /\ pc' = "convert"
    /\ UNCHANGED <<preferences, fs, registry, CLEANUP_LOCK, GLOBAL_RETRY_COUNT, idx,
                   song_path, c_track, retries, exc, tracks, failed_track_indices,
                   zip_path, m3u, events, net>>

\* files of item i that are on disk
Outputs(f, i) == {p \in {OutPath(i), ConvPath(i)} : Exists(f, p)}

\* download_try after the conversion: __write_track (which resolves the path
\* again with set_path and builds a fresh Track), write_tags, the "done"
\* event, return; easy_dw calls write_tags once more on the returned track.
Tag ==
    /\ UNCHANGED rt
    /\ pc = "tag"
    /\ Mode # "episode"
    /\ song_path' = OutPath(idx)
    /\ c_track' = Track(idx, song_path')
    /\ \E o1 \in TagOutcomes, o2 \in TagOutcomes :
        LET r1 == write_tags(fs, c_track', o1)
            r2 == write_tags(r1.fs, c_track', o2)
        IN IF r1.raised
           THEN /\ fs' = r1.fs /\ pc' = "item_exc" /\ exc' = "Tagging"
                /\ events' = events
                /\ hist' = TagObs(hist, fs, c_track', o1)
           ELSE /\ Emit(Ev("track", "done", idx, Parent, 0, 0))
                /\ IF UsesEasy
                   THEN /\ fs' = r2.fs
                        /\ hist' = [TagObs(TagObs(hist, fs, c_track', o1), r1.fs, c_track', o2)
                                      EXCEPT !.done = @ \cup Outputs(r2.fs, idx)]
                        /\ IF r2.raised
                           THEN pc' = "item_exc" /\ exc' = "Tagging"
                           ELSE pc' = "item_ret" /\ exc' = exc
                   ELSE /\ o2 = "ok"
                        /\ fs' = r1.fs
                        /\ hist' = [TagObs(hist, fs, c_track', o1)
                                      EXCEPT !.done = @ \cup Outputs(r1.fs, idx)]
                        /\ pc' = "item_ret" /\ exc' = exc
    /\ UNCHANGED <<preferences, registry, CLEANUP_LOCK, GLOBAL_RETRY_COUNT, idx,
                   retries, retry_delay, conv_try, tracks, failed_track_indices,
                   zip_path, m3u, net>>

\* ------------------------------------------------ orchestrator: download_eps
\* download_eps, existence prompt: an episode file that is on disk with tags
\* is kept when the user does not answer yes
EpsCheck ==
    /\ UNCHANGED rt
    /\ pc = "eps"
    /\ retries' = 0
    /\ retry_delay' = initial_retry_delay
    /\ \E redo \in BOOLEAN :
          IF Exists(fs, song_path) /\ fs[song_path].fp # 0 /\ ~redo
          THEN pc' = "item_ret"
          ELSE pc' = "acquire"
    /\ UNCHANGED <<preferences, fs, registry, CLEANUP_LOCK, GLOBAL_RETRY_COUNT, idx,
                   song_path, c_track, conv_try, exc, tracks, failed_track_indices,
                   zip_path, m3u, events, net, hist>>

\* load_episode answered: leave the retry loop, register and open the output
EpsAcquireOk ==
    /\ UNCHANGED rt
    /\ pc = "acquire"
    /\ Mode = "episode"
    /\ net' = net \cup {<<idx, "stream">>}
    /\ hist' = [hist EXCEPT !.attempts = @ + 1]
    /\ registry' = register_active_download(registry, song_path)
    /\ fs' = [fs EXCEPT ![song_path] = MkFile("partial")]
    /\ pc' = "write"
    /\ UNCHANGED <<preferences, CLEANUP_LOCK, GLOBAL_RETRY_COUNT, idx, song_path,
                   c_track, retries, retry_delay, conv_try, exc, tracks,
                   failed_track_indices, zip_path, m3u, events>>

\* load_episode raised: the "retrying" record is printed, not reported
EpsAcquireFail ==
    /\ UNCHANGED rt
    /\ pc = "acquire"
    /\ Mode = "episode"
    /\ net' = net \cup {<<idx, "stream">>}
    /\ hist' = [hist EXCEPT !.attempts = @ + 1, !.printed = @ \cup {"retrying"}]
    /\ GLOBAL_RETRY_COUNT' = GLOBAL_RETRY_COUNT + 1
    /\ retries' = retries + 1
    /\ IF CapReached(retries', GLOBAL_RETRY_COUNT', preferences.max_retries)
       THEN /\ fs' = Remove(fs, song_path)
            /\ pc' = "item_exc" /\ exc' = "MaxRetries"
       ELSE /\ fs' = fs
            /\ pc' = "retry_wait" /\ exc' = exc
    /\ UNCHANGED <<preferences, registry, CLEANUP_LOCK, idx, song_path, c_track,
                   retry_delay, conv_try, tracks, failed_track_indices, zip_path,
                   m3u, events>>

\* the episode stream was written in full; the path stays registered
EpsWriteOk ==
    /\ UNCHANGED rt
    /\ pc = "write"
    /\ Mode = "episode"
    /\ fs' = [fs EXCEPT ![song_path] = MkFile("raw")]
    /\ conv_try' = 1
    /\ pc' = "convert"
    /\ UNCHANGED <<preferences, registry, CLEANUP_LOCK, GLOBAL_RETRY_COUNT, idx,
                   song_path, c_track, retries, retry_delay, exc, tracks,
                   failed_track_indices, zip_path, m3u, events, net, hist>>

\* an exception while writing the episode: remove, unregister, re-raise
EpsWriteFail ==
    /\ UNCHANGED rt
    /\ pc = "write"
    /\ Mode = "episode"
    /\ fs' = Remove(fs, song_path)
    /\ registry' = unregister_active_download(registry, song_path)
    /\ hist' = [hist EXCEPT !.wfail = TRUE]
    /\ pc' = "item_exc"
    /\ exc' = "Write"
    /\ UNCHANGED <<preferences, CLEANUP_LOCK, GLOBAL_RETRY_COUNT, idx, song_path,
                   c_track, retries, retry_delay, conv_try, tracks,
                   failed_track_indices, zip_path, m3u, events, net>>

\* download_eps after the conversion: __write_episode, write_tags, return
EpsTag ==
    /\ UNCHANGED rt
    /\ pc = "tag"
    /\ Mode = "episode"
    /\ song_path' = OutPath(idx)
    /\ c_track' = Track(idx, song_path')
    /\ \E o \in TagOutcomes :
        LET r == write_tags(fs, c_track', o) IN
          /\ fs' = r.fs
          /\ hist' = [TagObs(hist, fs, c_track', o)
                        EXCEPT !.done = @ \cup Outputs(r.fs, idx)]
          /\ IF r.raised
             THEN pc' = "item_exc" /\ exc' = "Tagging"
             ELSE pc' = "item_ret" /\ exc' = exc
    /\ UNCHANGED <<preferences, registry, CLEANUP_LOCK, GLOBAL_RETRY_COUNT, idx,
                   retries, retry_delay, conv_try, tracks, failed_track_indices,
                   zip_path, m3u, events, net>>

\* ------------------------------------------------------------- aggregators
\* EASY_DW(preferences, parent): resolve the output path, build the result
NewItem(i) ==
    /\ idx' = i
    /\ song_path' = OutPath(i)
    /\ c_track' = Track(i, OutPath(i))
    /\ hist' = HistItem(hist, fs)

\* variant: the placeholder keeps the default success=True
Placeholder_successful(i) == Track(i, NoPath)

Placeholder(i) ==
    [item |-> i, song_path |-> NoPath, success |-> FALSE, was_skipped |-> FALSE]

\* Track(tags, ...) keeps a reference to the dictionary it was given: the
\* metadata result t refers to, as that dictionary is now. DW_TRACK and
\* DW_PLAYLIST hand EASY_DW the item's own dictionary of the request;
\* DW_ALBUM hands it a copy made for the item, and builds the placeholder of
\* "except TrackNotFound" on c_song_metadata, the one dictionary its loop
\* refills for every item.
\* variant: every result refers to the dictionary of the item in progress
tags_of_loop(t) == [item |-> idx, image |-> preferences.image[idx]]

tags(t) ==
    IF Mode = "album"
    THEN IF t.song_path = NoPath /\ ~t.success
         THEN [item |-> idx, image |-> "bytes"]
         ELSE [item |-> t.item, image |-> "bytes"]
    ELSE [item |-> t.item, image |-> preferences.image[t.item]]

\* DW_TRACK.dw
TrackDwBegin ==
    /\ UNCHANGED rt
    /\ pc = "begin"
    /\ Mode = "track"
    /\ NewItem(1)
    /\ pc' = "easy"
    /\ UNCHANGED <<preferences, fs, registry, CLEANUP_LOCK, GLOBAL_RETRY_COUNT,
                   retries, retry_delay, conv_try, exc, tracks,
                   failed_track_indices, zip_path, m3u, events, net>>

TrackDwReturn ==
    /\ UNCHANGED rt
    /\ pc = "item_ret"
    /\ Mode = "track"
    /\ tracks' = <<c_track>>
    /\ pc' = "returned"
    /\ UNCHANGED <<preferences, fs, registry, CLEANUP_LOCK, GLOBAL_RETRY_COUNT, idx,
                   song_path, c_track, retries, retry_delay, conv_try, exc,
                   failed_track_indices, zip_path, m3u, events, net, hist>>

\* an exception of the single item reaches the caller
ItemRaise ==
    /\ UNCHANGED rt
    /\ pc = "item_exc"
    /\ Mode \in {"track", "episode"}
    /\ pc' = "raised"
    /\ UNCHANGED <<preferences, fs, registry, CLEANUP_LOCK, GLOBAL_RETRY_COUNT, idx,
                   song_path, c_track, retries, retry_delay, conv_try, exc, tracks,
                   failed_track_indices, zip_path, m3u, events, net, hist>>

\* DW_EPISODE.dw
EpisodeDwBegin ==
    /\ UNCHANGED rt
    /\ pc = "begin"
    /\ Mode = "episode"
    /\ Emit(Ev("episode", "initializing", 1, "none", 0, 0))
    /\ NewItem(1)
    /\ pc' = "eps"
    /\ UNCHANGED <<preferences, fs, registry, CLEANUP_LOCK, GLOBAL_RETRY_COUNT,
                   retries, retry_delay, conv_try, exc, tracks,
                   failed_track_indices, zip_path, m3u, net>>

EpisodeDwReturn ==
    /\ UNCHANGED rt
    /\ pc = "item_ret"
    /\ Mode = "episode"
    /\ Emit(Ev("episode", "done", 1, "none", 0, 0))
    /\ tracks' = <<c_track>>
    /\ pc' = "returned"
    /\ UNCHANGED <<preferences, fs, registry, CLEANUP_LOCK, GLOBAL_RETRY_COUNT, idx,
                   song_path, c_track, retries, retry_delay, conv_try, exc,
                   failed_track_indices, zip_path, m3u, net, hist>>

\* results with success=True, in list order
RECURSIVE Successful(_)
Successful(ts) ==
    IF ts = <<>> THEN <<>>
    ELSE IF Head(ts).success THEN <<Head(ts)>> \o Successful(Tail(ts))
         ELSE Successful(Tail(ts))

\* DW_ALBUM.dw up to the loop: "initializing", cover image request; the
\* bytes are stored under the "image" key of the album's metadata
AlbumBegin ==
    /\ UNCHANGED rt
    /\ pc = "begin"
    /\ Mode = "album"
    /\ Emit(AggEv("album", "initializing", [total_tracks |-> NItems]))
    /\ net' = net \cup {<<0, "image">>}
    /\ \E ok \in BOOLEAN :
          IF ok
          THEN /\ preferences' =
                    [preferences EXCEPT !.image = [i \in DOMAIN @ |-> "bytes"]]
               /\ pc' = "loop" /\ exc' = exc
          ELSE /\ preferences' = preferences
               /\ pc' = "raised" /\ exc' = "Image"
    /\ UNCHANGED <<fs, registry, CLEANUP_LOCK, GLOBAL_RETRY_COUNT, idx,
                   song_path, c_track, retries, retry_delay, conv_try, tracks,
                   failed_track_indices, zip_path, m3u, hist>>

\* loop body up to the call EASY_DW(c_preferences, parent="album").download_try()
AlbumItemStart ==
    /\ UNCHANGED rt
    /\ pc = "loop"
    /\ Mode = "album"
    /\ idx < NItems
    /\ NewItem(idx + 1)
    /\ pc' = "check"
    /\ UNCHANGED <<preferences, fs, registry, CLEANUP_LOCK, GLOBAL_RETRY_COUNT,
                   retries, retry_delay, conv_try, exc, tracks,
                   failed_track_indices, zip_path, m3u, events, net>>

AlbumItemReturn ==
    /\ UNCHANGED rt
    /\ pc = "item_ret"
    /\ Mode = "album"
    /\ tracks' = Append(tracks, c_track)
    /\ pc' = "loop"
    /\ UNCHANGED <<preferences, fs, registry, CLEANUP_LOCK, GLOBAL_RETRY_COUNT, idx,
                   song_path, c_track, retries, retry_delay, conv_try, exc,
                   failed_track_indices, zip_path, m3u, events, net, hist>>

\* the try around download_try has the single clause "except TrackNotFound"
AlbumItemRaise ==
    /\ UNCHANGED rt
    /\ pc = "item_exc"
    /\ Mode = "album"
    /\ IF exc = "TrackNotFound"
       THEN /\ tracks' = Append(tracks, Placeholder(idx))
            /\ hist' = [hist EXCEPT !.printed = @ \cup {"not found"}]
            /\ pc' = "loop"
            /\ exc' = "none"
       ELSE /\ pc' = "raised"
            /\ UNCHANGED <<tracks, exc, hist>>
    /\ UNCHANGED <<preferences, fs, registry, CLEANUP_LOCK, GLOBAL_RETRY_COUNT, idx,
                   song_path, c_track, retries, retry_delay, conv_try,
                   failed_track_indices, zip_path, m3u, events, net>>

\* after the loop: the archive when make_zip is set (from every result; a
\* failure of create_zip is not caught), the "done" event, return
AlbumFinish ==
    /\ UNCHANGED rt
    /\ pc = "loop"
    /\ Mode = "album"
    /\ idx = NItems
    /\ \E ok \in BOOLEAN :
          IF preferences.make_zip /\ ~ok
          THEN /\ pc' = "raised" /\ exc' = "Zip"
               /\ hist' = [hist EXCEPT !.zipfail = TRUE]
               /\ UNCHANGED <<zip_path, events>>
          ELSE /\ ok
               /\ hist' = hist
               /\ zip_path' = IF preferences.make_zip
                              THEN [made |-> TRUE, items |-> tracks] ELSE zip_path
               /\ Emit(AggEv("album", "done", [total_tracks |-> NItems]))
               /\ pc' = "returned" /\ exc' = exc
    /\ UNCHANGED <<preferences, fs, registry, CLEANUP_LOCK, GLOBAL_RETRY_COUNT, idx,
                   song_path, c_track, retries, retry_delay, conv_try, tracks,
                   failed_track_indices, m3u, net>>

\* DW_PLAYLIST.dw up to the loop
PlaylistBegin ==
    /\ UNCHANGED rt
    /\ pc = "begin"
    /\ Mode = "playlist"
    /\ Emit(AggEv("playlist", "initializing", [total_tracks |-> NItems]))
    /\ pc' = "loop"
    /\ UNCHANGED <<preferences, fs, registry, CLEANUP_LOCK, GLOBAL_RETRY_COUNT, idx,
                   song_path, c_track, retries, retry_delay, conv_try, exc, tracks,
                   failed_track_indices, zip_path, m3u, net, hist>>

\* "Skip if metadata is just an error string": continue
PlaylistSkipStr ==
    /\ UNCHANGED rt
    /\ pc = "loop"
    /\ Mode = "playlist"
    /\ idx < NItems
    /\ preferences.meta[idx + 1] = "str"
    /\ idx' = idx + 1
    /\ UNCHANGED <<preferences, fs, registry, CLEANUP_LOCK, GLOBAL_RETRY_COUNT, pc,
                   song_path, c_track, retries, retry_delay, conv_try, exc, tracks,
                   failed_track_indices, zip_path, m3u, events, net, hist>>

\* loop body up to the call EASY_DW(c_preferences, parent="playlist").easy_dw()
PlaylistItemStart ==
    /\ UNCHANGED rt
    /\ pc = "loop"
    /\ Mode = "playlist"
    /\ idx < NItems
    /\ preferences.meta[idx + 1] = "meta"
    /\ NewItem(idx + 1)
    /\ pc' = "easy"
    /\ UNCHANGED <<preferences, fs, registry, CLEANUP_LOCK, GLOBAL_RETRY_COUNT,
                   retries, retry_delay, conv_try, exc, tracks,
                   failed_track_indices, zip_path, m3u, events, net>>

\* easy_dw returned: append the track; a track with success=False is added
\* to the failure records; a successful one gets its line in the m3u file
\* (header first when the file is not there). An exception while writing the
\* m3u file is caught by the same handler as a failed download.
PlaylistItemReturn ==
    /\ UNCHANGED rt
    /\ pc = "item_ret"
    /\ Mode = "playlist"
    /\ \E ok \in BOOLEAN :
        LET t1 == Append(tracks, c_track)
            f1 == IF c_track.success THEN failed_track_indices
                  ELSE Append(failed_track_indices, idx)
            toM3u == c_track.success /\ c_track.song_path # NoPath
        IN IF toM3u /\ ~ok
           THEN /\ tracks' = Append(t1, Placeholder(idx))
                /\ failed_track_indices' = Append(f1, idx)
                /\ m3u' = m3u
           ELSE /\ ok
                /\ tracks' = t1
                /\ failed_track_indices' = f1
                /\ m3u' = IF toM3u
                          THEN Append(IF m3u = <<>> THEN <<"#EXTM3U">> ELSE m3u,
                                      c_track.song_path)
                          ELSE m3u
    /\ pc' = "loop"
    /\ UNCHANGED <<preferences, fs, registry, CLEANUP_LOCK, GLOBAL_RETRY_COUNT, idx,
                   song_path, c_track, retries, retry_delay, conv_try, exc,
                   zip_path, events, net, hist>>

\* except Exception: record the failure, append a placeholder, go on
PlaylistItemRaise ==
    /\ UNCHANGED rt
    /\ pc = "item_exc"
    /\ Mode = "playlist"
    /\ failed_track_indices' = Append(failed_track_indices, idx)
    /\ tracks' = Append(tracks, Placeholder(idx))
    /\ hist' = [hist EXCEPT !.raised = @ \cup {idx}]
    /\ exc' = "none"
    /\ pc' = "loop"
    /\ UNCHANGED <<preferences, fs, registry, CLEANUP_LOCK, GLOBAL_RETRY_COUNT, idx,
                   song_path, c_track, retries, retry_delay, conv_try, zip_path,
                   m3u, events, net>>

\* after the loop: the archive of the successful results when make_zip is
\* set and one succeeded (a create_zip failure is logged), the "done" event
\* with the counts, the failure records on the result, return
PlaylistFinish ==
    /\ UNCHANGED rt
    /\ pc = "loop"
    /\ Mode = "playlist"
    /\ idx = NItems
    /\ \E ok \in BOOLEAN :
          IF preferences.make_zip /\ Successful(tracks) # <<>>
          THEN /\ zip_path' = IF ok THEN [made |-> TRUE, items |-> Successful(tracks)]
                              ELSE zip_path
               /\ hist' = [hist EXCEPT !.zipfail = ~ok]
          ELSE ok /\ zip_path' = zip_path /\ hist' = hist
    /\ Emit(AggEv("playlist", "done",
                  [total_tracks |-> NItems,
                   successful_tracks |-> Len(Successful(tracks)),
                   failed_tracks |-> Len(failed_track_indices)]))
    /\ pc' = "returned"
    /\ UNCHANGED <<preferences, fs, registry, CLEANUP_LOCK, GLOBAL_RETRY_COUNT, idx,
                   song_path, c_track, retries, retry_delay, conv_try, exc, tracks,
                   failed_track_indices, m3u, net>>

\* ------------------------------------- DeeLogin.download_playlistspo
\* what download_trackspo does for one playlist member: it downloads and
\* returns a successful track, returns a skipped one, or raises
TrackSpoOutcomes == {"ok", "skipped", "raise"}

\* up to the loop: fetch the playlist (a failure is caught by the outermost
\* handler, which returns an empty playlist), "initializing", the playlist
\* file is opened with mode "w" and gets the header
SpoBegin ==
    /\ UNCHANGED rt
    /\ pc = "begin"
    /\ Mode = "playlistspo"
    /\ net' = net \cup {<<0, "playlist">>}
    /\ \E ok \in BOOLEAN :
          IF ok
          THEN /\ Emit(AggEv("playlist", "initializing", [total_tracks |-> NItems]))
               /\ m3u' = <<"#EXTM3U">>
               /\ pc' = "loop"
          ELSE /\ pc' = "returned"
               /\ UNCHANGED <<events, m3u>>
    /\ UNCHANGED <<preferences, fs, registry, CLEANUP_LOCK, GLOBAL_RETRY_COUNT, idx,
                   song_path, c_track, retries, retry_delay, conv_try, exc, tracks,
                   failed_track_indices, zip_path, hist>>

\* an item without a track or without external urls: "progress", continue
SpoSkipInvalid ==
    /\ UNCHANGED rt
    /\ pc = "loop"
    /\ Mode = "playlistspo"
    /\ idx < NItems
    /\ preferences.meta[idx + 1] = "invalid"
    /\ idx' = idx + 1
    /\ Emit(Ev("playlist", "progress", idx + 1, "none", idx + 1, NItems))
    /\ UNCHANGED <<preferences, fs, registry, CLEANUP_LOCK, GLOBAL_RETRY_COUNT, pc,
                   song_path, c_track, retries, retry_delay, conv_try, exc, tracks,
                   failed_track_indices, zip_path, m3u, net, hist>>

\* a valid item: "progress", download_trackspo, append the track and, when it
\* succeeded, its line to the playlist file; any exception of the download or
\* of the file append records the failure and appends a placeholder
SpoItem ==
    /\ UNCHANGED rt
    /\ pc = "loop"
    /\ Mode = "playlistspo"
    /\ idx < NItems
    /\ preferences.meta[idx + 1] = "meta"
    /\ idx' = idx + 1
    /\ Emit(Ev("playlist", "progress", idx', "none", idx', NItems))
    /\ net' = net \cup {<<idx', "stream">>}
    /\ \E o \in TrackSpoOutcomes, ok \in BOOLEAN :
        LET t == IF o = "ok" THEN Track(idx', OutPath(idx'))
                 ELSE [Track(idx', OutPath(idx')) EXCEPT !.success = FALSE,
                                                         !.was_skipped = TRUE]
        IN /\ o = "skipped" => track_exists(fs, idx')
           /\ o # "ok" => ok
           /\ fs' = IF o = "ok"
                    THEN [fs EXCEPT ![OutPath(idx')] =
                                      [audio |-> "enc", fp |-> idx', ver |-> "cur"]]
                    ELSE fs
           /\ hist' = IF o = "ok" THEN [hist EXCEPT !.done = @ \cup {OutPath(idx')}]
                      ELSE hist
           /\ IF o = "raise" \/ ~ok
              THEN /\ tracks' = (IF o = "raise" THEN tracks ELSE Append(tracks, t))
                                  \o <<Placeholder(idx')>>
                   /\ failed_track_indices' = Append(failed_track_indices, idx')
                   /\ m3u' = m3u
              ELSE /\ tracks' = Append(tracks, t)
                   /\ failed_track_indices' = failed_track_indices
                   /\ m3u' = IF t.success THEN Append(m3u, t.song_path) ELSE m3u
    /\ UNCHANGED <<preferences, registry, CLEANUP_LOCK, GLOBAL_RETRY_COUNT, pc,
                   song_path, c_track, retries, retry_delay, conv_try, exc, zip_path>>

\* after the loop: "done" with the total and the failed count, then the
\* archive of the successful tracks; a create_zip failure reaches the
\* outermost handler, which returns a new, empty playlist
SpoFinish ==
    /\ UNCHANGED rt
    /\ pc = "loop"
    /\ Mode = "playlistspo"
    /\ idx = NItems
    /\ Emit(AggEv("playlist", "done",
                  [total_tracks |-> NItems,
                   failed_tracks |-> Len(failed_track_indices)]))
    /\ \E ok \in BOOLEAN :
          IF preferences.make_zip /\ Successful(tracks) # <<>>
          THEN IF ok
               THEN /\ zip_path' = [made |-> TRUE, items |-> Successful(tracks)]
                    /\ UNCHANGED <<tracks, failed_track_indices, hist>>
               ELSE /\ tracks' = <<>>
                    /\ failed_track_indices' = <<>>
                    /\ hist' = [hist EXCEPT !.zipfail = TRUE]
                    /\ zip_path' = zip_path
          ELSE /\ ok
               /\ UNCHANGED <<zip_path, tracks, failed_track_indices, hist>>
    /\ pc' = "returned"
    /\ UNCHANGED <<preferences, fs, registry, CLEANUP_LOCK, GLOBAL_RETRY_COUNT, idx,
                   song_path, c_track, retries, retry_delay, conv_try, exc, m3u, net>>

\* ------------------------------------------------------ process termination
\* atexit hook at normal interpreter exit
Exit ==
    /\ UNCHANGED rt
    /\ pc \in {"returned", "raised"}
    /\ LET c == cleanup_active_downloads(fs, registry, CLEANUP_LOCK) IN
        /\ fs' = c.fs
        /\ registry' = c.reg
        /\ hist' = [hist EXCEPT !.del = @ \cup c.del, !.sigpc = pc,
                                !.sigcur = registry.current]
    /\ pc' = "exited"
    /\ UNCHANGED <<preferences, CLEANUP_LOCK, GLOBAL_RETRY_COUNT, idx, song_path,
                   c_track, retries, retry_delay, conv_try, exc, tracks,
                   failed_track_indices, zip_path, m3u, events, net>>

\* signal_handler: cleanup_active_downloads(), then sys.exit(0), which runs
\* the atexit hook and with it the cleanup routine a second time
Signal ==
    /\ UNCHANGED rt
    /\ pc # "exited"
    /\ LET c1 == cleanup_active_downloads(fs, registry, CLEANUP_LOCK)
           c2 == cleanup_active_downloads(c1.fs, c1.reg, CLEANUP_LOCK)
       IN /\ fs' = c2.fs
          /\ registry' = c2.reg
          /\ hist' = [hist EXCEPT !.del = @ \cup c1.del \cup c2.del, !.sigpc = pc,
                                  !.sigcur = registry.current]
    /\ pc' = "exited"
    /\ UNCHANGED <<preferences, CLEANUP_LOCK, GLOBAL_RETRY_COUNT, idx, song_path,
                   c_track, retries, retry_delay, conv_try, exc, tracks,
                   failed_track_indices, zip_path, m3u, events, net>>

Next ==
    \/ EasyDwBegin \/ CheckExistence \/ AcquireOk \/ AcquireFail \/ RetrySleep
    \/ WriteOk \/ WriteFail \/ ConvertBegin \/ Normalize \/ Transcode \/ ConvWait
    \/ Tag
    \/ EpsCheck \/ EpsAcquireOk \/ EpsAcquireFail \/ EpsWriteOk \/ EpsWriteFail
    \/ EpsTag
    \/ TrackDwBegin \/ TrackDwReturn \/ ItemRaise \/ EpisodeDwBegin \/ EpisodeDwReturn
    \/ AlbumBegin \/ AlbumItemStart \/ AlbumItemReturn \/ AlbumItemRaise \/ AlbumFinish
    \/ PlaylistBegin \/ PlaylistSkipStr \/ PlaylistItemStart \/ PlaylistItemReturn
    \/ PlaylistItemRaise \/ PlaylistFinish
    \/ SpoBegin \/ SpoSkipInvalid \/ SpoItem \/ SpoFinish
    \/ Exit \/ Signal

Spec == Init /\ [][Next]_vars

\* ------------------------------------------------- the registry on its own
\* register_active_download, unregister_active_download and
\* cleanup_active_downloads called in any order, the first two with any path,
\* starting from the empty registry of a fresh process with partial files at
\* some of the output paths; hist keeps the last call: its name, its argument
\* and the registry before
InitRegistry ==
    /\ preferences = [mode |-> "registry", n |-> MaxItems, convert_to |-> FALSE,
                      max_retries |-> 1, make_zip |-> FALSE,
                      meta |-> [i \in Items |-> "meta"],
                      image |-> [i \in Items |-> "url"]]
    /\ \E F \in SUBSET Items :
          fs = [p \in Paths |->
                  IF p[1] = "ogg" /\ p[2] \in F THEN MkFile("partial") ELSE NoFile]
    /\ registry = Reg({}, NoPath)
    /\ CLEANUP_LOCK = FALSE
    /\ GLOBAL_RETRY_COUNT = 0
    /\ pc = "registry"
    /\ idx = 0
    /\ song_path = NoPath
    /\ c_track = Track(0, NoPath)
    /\ retries = 0
    /\ retry_delay = initial_retry_delay
    /\ conv_try = 1
    /\ exc = "none"
    /\ tracks = <<>>
    /\ failed_track_indices = <<>>
    /\ zip_path = [made |-> FALSE, items |-> <<>>]
    /\ m3u = <<>>
    /\ events = <<>>
    /\ net = {}
    /\ hist = [op |-> "none", arg |-> NoPath, before |-> Reg({}, NoPath)]
    /\ rt = RtIdle

RegisterCall ==
    /\ UNCHANGED rt
    /\ pc = "registry"
    /\ \E p \in Paths :
          /\ registry' = register_active_download(registry, p)
          /\ hist' = [op |-> "register", arg |-> p, before |-> registry]
    /\ UNCHANGED <<preferences, fs, CLEANUP_LOCK, GLOBAL_RETRY_COUNT, pc, idx,
                   song_path, c_track, retries, retry_delay, conv_try, exc, tracks,
                   failed_track_indices, zip_path, m3u, events, net>>

UnregisterCall ==
    /\ UNCHANGED rt
    /\ pc = "registry"
    /\ \E p \in Paths :
          /\ registry' = unregister_active_download(registry, p)
          /\ hist' = [op |-> "unregister", arg |-> p, before |-> registry]
    /\ UNCHANGED <<preferences, fs, CLEANUP_LOCK, GLOBAL_RETRY_COUNT, pc, idx,
                   song_path, c_track, retries, retry_delay, conv_try, exc, tracks,
                   failed_track_indices, zip_path, m3u, events, net>>

CleanupCall ==
    /\ pc = "registry"
    /\ LET c == cleanup_active_downloads(fs, registry, CLEANUP_LOCK) IN
          /\ fs' = c.fs
          /\ registry' = c.reg
    /\ hist' = [op |-> "cleanup", arg |-> registry.current, before |-> registry]
    /\ UNCHANGED <<preferences, CLEANUP_LOCK, GLOBAL_RETRY_COUNT, pc, idx,
                   song_path, c_track, retries, retry_delay, conv_try, exc, tracks,
                   failed_track_indices, zip_path, m3u, events, net, rt>>

NextRegistry == RegisterCall \/ UnregisterCall \/ CleanupCall

SpecRegistry == InitRegistry /\ [][NextRegistry]_vars

\* ------------------------------------------------ the cleanup at termination
\* cleanup_active_downloads statement by statement, entered from the signal
\* handler or from the exit hook, with a further signal arriving while the
\* routine runs. Signal handlers run on the main thread between two
\* instructions of the interrupted code; sys.exit(0) in the handler raises
\* SystemExit into that code, which "except Exception" does not catch.
\* hist: via, the caller of the running invocation; first, the caller of the
\* first one; sigcur, the pointer when the first signal arrived; del, all
\* paths deleted; nested_del, the paths deleted by invocations that started
\* while another was in progress.

\* the registries the program can be in: the pointer is none or a member
CleanupRegistries ==
    {Reg(A, c) : A \in SUBSET {OutPath(i) : i \in Items},
                 c \in {OutPath(i) : i \in Items} \cup {NoPath}}
        \cap {r \in [active : SUBSET Paths, current : Paths \cup {NoPath}] :
                 r.current = NoPath \/ r.current \in r.active}

InitCleanup ==
    /\ preferences = [mode |-> "cleanup", n |-> MaxItems, convert_to |-> FALSE,
                      max_retries |-> 1, make_zip |-> FALSE,
                      meta |-> [i \in Items |-> "meta"],
                      image |-> [i \in Items |-> "url"]]
    /\ \E F \in SUBSET Items :
          fs = [p \in Paths |->
                  IF p[1] = "ogg" /\ p[2] \in F THEN MkFile("partial") ELSE NoFile]
    /\ registry \in CleanupRegistries
    /\ CLEANUP_LOCK = FALSE
    /\ GLOBAL_RETRY_COUNT = 0
    /\ pc = "cl_run"
    /\ idx = 0
    /\ song_path = NoPath
    /\ c_track = Track(0, NoPath)
    /\ retries = 0
    /\ retry_delay = initial_retry_delay
    /\ conv_try = 1
    /\ exc = "none"
    /\ tracks = <<>>
    /\ failed_track_indices = <<>>
    /\ zip_path = [made |-> FALSE, items |-> <<>>]
    /\ m3u = <<>>
    /\ events = <<>>
    /\ net = {}
    /\ hist = [via |-> "none", first |-> "none", sigcur |-> NoPath, del |-> {},
               nested_del |-> {}]
    /\ rt = RtIdle

\* signal_handler: cleanup_active_downloads() is called
SignalHandler ==
    /\ pc = "cl_run"
    /\ pc' = "cl_enter"
    /\ hist' = [hist EXCEPT !.via = "signal", !.first = "signal",
                            !.sigcur = registry.current]
    /\ UNCHANGED <<fs, registry, CLEANUP_LOCK>>
    /\ UNCHANGED <<preferences, GLOBAL_RETRY_COUNT, idx, song_path, c_track, retries,
                   retry_delay, conv_try, exc, tracks, failed_track_indices,
                   zip_path, m3u, events, net, rt>>

\* normal interpreter exit: the atexit hook calls cleanup_active_downloads()
AtExit ==
    /\ pc = "cl_run"
    /\ pc' = "cl_enter"
    /\ hist' = [hist EXCEPT !.via = "atexit", !.first = "atexit"]
    /\ UNCHANGED <<fs, registry, CLEANUP_LOCK>>
    /\ UNCHANGED <<preferences, GLOBAL_RETRY_COUNT, idx, song_path, c_track, retries,
                   retry_delay, conv_try, exc, tracks, failed_track_indices,
                   zip_path, m3u, events, net, rt>>

\* if CLEANUP_LOCK: return
CleanupCheckLock ==
    /\ pc = "cl_enter"
    /\ pc' = IF CLEANUP_LOCK THEN "cl_leave" ELSE "cl_set"
    /\ UNCHANGED <<fs, registry, CLEANUP_LOCK, hist>>
    /\ UNCHANGED <<preferences, GLOBAL_RETRY_COUNT, idx, song_path, c_track, retries,
                   retry_delay, conv_try, exc, tracks, failed_track_indices,
                   zip_path, m3u, events, net, rt>>

\* CLEANUP_LOCK = True
CleanupSetLock ==
    /\ pc = "cl_set"
    /\ CLEANUP_LOCK' = TRUE
    /\ pc' = "cl_locked"
    /\ UNCHANGED <<fs, registry, hist>>
    /\ UNCHANGED <<preferences, GLOBAL_RETRY_COUNT, idx, song_path, c_track, retries,
                   retry_delay, conv_try, exc, tracks, failed_track_indices,
                   zip_path, m3u, events, net, rt>>

\* if CURRENT_DOWNLOAD: if os.path.exists(...): os.remove(...); an OSError of
\* os.remove is caught and logged
CleanupRemove ==
    /\ pc = "cl_locked"
    /\ IF registry.current # NoPath /\ Exists(fs, registry.current)
       THEN \/ /\ fs' = Remove(fs, registry.current)
               /\ hist' = [hist EXCEPT !.del = @ \cup {registry.current}]
               /\ pc' = "cl_removed"
            \/ /\ pc' = "cl_unlock"
               /\ UNCHANGED <<fs, hist>>
       ELSE /\ pc' = "cl_unlock"
            /\ UNCHANGED <<fs, hist>>
    /\ UNCHANGED <<registry, CLEANUP_LOCK>>
    /\ UNCHANGED <<preferences, GLOBAL_RETRY_COUNT, idx, song_path, c_track, retries,
                   retry_delay, conv_try, exc, tracks, failed_track_indices,
                   zip_path, m3u, events, net, rt>>

\* unregister_active_download(CURRENT_DOWNLOAD)
CleanupUnregister ==
    /\ pc = "cl_removed"
    /\ registry' = unregister_active_download(registry, registry.current)
    /\ pc' = "cl_unlock"
    /\ UNCHANGED <<fs, CLEANUP_LOCK, hist>>
    /\ UNCHANGED <<preferences, GLOBAL_RETRY_COUNT, idx, song_path, c_track, retries,
                   retry_delay, conv_try, exc, tracks, failed_track_indices,
                   zip_path, m3u, events, net, rt>>

\* CLEANUP_LOCK = False
CleanupUnlock ==
    /\ pc = "cl_unlock"
    /\ CLEANUP_LOCK' = FALSE
    /\ pc' = "cl_leave"
    /\ UNCHANGED <<fs, registry, hist>>
    /\ UNCHANGED <<preferences, GLOBAL_RETRY_COUNT, idx, song_path, c_track, retries,
                   retry_delay, conv_try, exc, tracks, failed_track_indices,
                   zip_path, m3u, events, net, rt>>

\* the routine returns: the signal handler goes on to sys.exit(0), whose
\* exit runs the atexit hook; the atexit hook ends the process
CleanupReturn ==
    /\ pc = "cl_leave"
    /\ IF hist.via = "signal"
       THEN /\ pc' = "cl_enter"
            /\ hist' = [hist EXCEPT !.via = "atexit"]
       ELSE /\ pc' = "exited"
            /\ hist' = hist
    /\ UNCHANGED <<fs, registry, CLEANUP_LOCK>>
    /\ UNCHANGED <<preferences, GLOBAL_RETRY_COUNT, idx, song_path, c_track, retries,
                   retry_delay, conv_try, exc, tracks, failed_track_indices,
                   zip_path, m3u, events, net, rt>>

\* a signal arrives while an invocation of the routine is in progress: the
\* handler runs the routine to its end, then sys.exit(0) unwinds the
\* interrupted invocation, which leaves CLEANUP_LOCK as it stands; the atexit
\* hook follows unless the interrupted invocation was the hook's own
NestedSignal ==
    /\ pc \in {"cl_enter", "cl_set", "cl_locked", "cl_removed", "cl_unlock"}
    /\ LET c == cleanup_active_downloads(fs, registry, CLEANUP_LOCK) IN
          /\ fs' = c.fs
          /\ registry' = c.reg
          /\ hist' = [hist EXCEPT !.del = @ \cup c.del,
                                  !.nested_del = @ \cup c.del,
                                  !.via = "atexit"]
    /\ pc' = IF hist.via = "signal" THEN "cl_enter" ELSE "exited"
    /\ UNCHANGED CLEANUP_LOCK
    /\ UNCHANGED <<preferences, GLOBAL_RETRY_COUNT, idx, song_path, c_track, retries,
                   retry_delay, conv_try, exc, tracks, failed_track_indices,
                   zip_path, m3u, events, net, rt>>

NextCleanup ==
    \/ SignalHandler \/ AtExit \/ CleanupCheckLock \/ CleanupSetLock
    \/ CleanupRemove \/ CleanupUnregister \/ CleanupUnlock \/ CleanupReturn
    \/ NestedSignal

SpecCleanup == InitCleanup /\ [][NextCleanup]_vars

\* ------------------------------------------------------ the existence check
\* track_exists(title, album) on a final directory given entry by entry, in
\* the order os.listdir returns them. An entry has an extension and a kind:
\* "match", an audio file tagged with the item's title and album; "other",
\* one tagged with the item's title and another album; "untagged", one
\* without title and album; "unreadable", a file the tag reader raises on;
\* "notfile", a directory of that name. The item's title and album are
\* strings. hist: dir, the state of the final directory; files, its entries;
\* pos, the entry the loop is at; answer; errors, the exceptions raised so
\* far while listing the directory or reading tags.
TeExts == {"mp3", "ogg", "wav", "txt"}
TeKinds == {"match", "other", "untagged", "unreadable", "notfile"}
TeEntries == [ext : TeExts, kind : TeKinds]
TeDirs == {"ok", "missing", "unlistable"}
NoTags == [title |-> "None", album |-> "None", raised |-> FALSE]

\* file.lower().endswith((".mp3", ".ogg", ".flac", ".wav", ".m4a", ".opus"))
IsAudioName(e) == e.ext \in {"mp3", "ogg", "wav"}

\* the try block of read_metadata: not a file, None; File(file_path) or the
\* format's reader raises on an unreadable file; the formats without a
\* branch (.wav, .opus) fall to the else and give None
read_metadata_try(e) ==
    IF e.kind = "notfile" THEN NoTags
    ELSE IF e.kind = "unreadable" THEN [NoTags EXCEPT !.raised = TRUE]
    ELSE IF e.ext \notin {"mp3", "ogg"} THEN NoTags
    ELSE CASE e.kind = "match" -> [title |-> "t", album |-> "a", raised |-> FALSE]
           [] e.kind = "other" -> [title |-> "t", album |-> "b", raised |-> FALSE]
           [] OTHER -> NoTags

\* variant: the reader's exception reaches track_exists
read_metadata_raising(e) == read_metadata_try(e)

\* read_metadata: except Exception: return None, None
read_metadata(e) ==
    [read_metadata_try(e) EXCEPT !.raised = FALSE]

InitExists ==
    /\ preferences = [mode |-> "exists", n |-> 1, convert_to |-> FALSE,
                      max_retries |-> 1, make_zip |-> FALSE,
                      meta |-> [i \in Items |-> "meta"],
                      image |-> [i \in Items |-> "url"]]
    /\ fs = [p \in Paths |-> NoFile]
    /\ registry = Reg({}, NoPath)
    /\ CLEANUP_LOCK = FALSE
    /\ GLOBAL_RETRY_COUNT = 0
    /\ pc = "te_begin"
    /\ idx = 1
    /\ song_path = OutPath(1)
    /\ c_track = Track(1, OutPath(1))
    /\ retries = 0
    /\ retry_delay = initial_retry_delay
    /\ conv_try = 1
    /\ exc = "none"
    /\ tracks = <<>>
    /\ failed_track_indices = <<>>
    /\ zip_path = [made |-> FALSE, items |-> <<>>]
    /\ m3u = <<>>
    /\ events = <<>>
    /\ net = {}
    /\ \E d \in TeDirs, n \in 0..MaxFiles :
          \E fl \in [1..n -> TeEntries] :
             /\ d # "ok" => n = 0
             /\ hist = [dir |-> d, files |-> fl, pos |-> 1, answer |-> "none",
                        errors |-> 0]
    /\ rt = RtIdle

\* os.path.exists(final_dir) is false: return False; os.listdir raises: the
\* except branch returns False
TeList ==
    /\ pc = "te_begin"
    /\ CASE hist.dir = "missing" ->
               /\ hist' = [hist EXCEPT !.answer = "absent"]
               /\ pc' = "te_done"
         [] hist.dir = "unlistable" ->
               /\ hist' = [hist EXCEPT !.answer = "absent", !.errors = @ + 1]
               /\ pc' = "te_done"
         [] OTHER ->
               /\ hist' = hist
               /\ pc' = "te_scan"
    /\ UNCHANGED <<preferences, fs, registry, CLEANUP_LOCK, GLOBAL_RETRY_COUNT, idx,
                   song_path, c_track, retries, retry_delay, conv_try, exc, tracks,
                   failed_track_indices, zip_path, m3u, events, net, rt>>

\* one round of the loop over the directory entries
TeScan ==
    /\ pc = "te_scan"
    /\ hist.pos <= Len(hist.files)
    /\ LET e == hist.files[hist.pos]
           t == read_metadata_try(e)
           m == read_metadata(e)
       IN IF ~IsAudioName(e)
          THEN /\ hist' = [hist EXCEPT !.pos = @ + 1]
               /\ pc' = "te_scan"
          ELSE IF m.raised
          THEN /\ hist' = [hist EXCEPT !.answer = "absent", !.errors = @ + 1]
               /\ pc' = "te_done"
          ELSE IF m.title = "t" /\ m.album = "a"
          THEN /\ hist' = [hist EXCEPT !.answer = "present",
                                       !.errors = @ + (IF t.raised THEN 1 ELSE 0)]
               /\ pc' = "te_done"
          ELSE /\ hist' = [hist EXCEPT !.pos = @ + 1,
                                       !.errors = @ + (IF t.raised THEN 1 ELSE 0)]
               /\ pc' = "te_scan"
    /\ UNCHANGED <<preferences, fs, registry, CLEANUP_LOCK, GLOBAL_RETRY_COUNT, idx,
                   song_path, c_track, retries, retry_delay, conv_try, exc, tracks,
                   failed_track_indices, zip_path, m3u, events, net, rt>>

\* the loop is exhausted: return False
TeEnd ==
    /\ pc = "te_scan"
    /\ hist.pos > Len(hist.files)
    /\ hist' = [hist EXCEPT !.answer = "absent"]
    /\ pc' = "te_done"
    /\ UNCHANGED <<preferences, fs, registry, CLEANUP_LOCK, GLOBAL_RETRY_COUNT, idx,
                   song_path, c_track, retries, retry_delay, conv_try, exc, tracks,
                   failed_track_indices, zip_path, m3u, events, net, rt>>

NextExists == TeList \/ TeScan \/ TeEnd

SpecExists == InitExists /\ [][NextExists]_vars

\* ------------------------------------------------------- real-time write
\* The write stage of download_try and download_eps with real_time_dl set and
\* a positive duration in the metadata. The clock (rt.now, time.time()) is
\* read in whole milliseconds; sizes are in bytes, durations in seconds.

\* the declared sizes of the streams: a short one whose last chunk is partial
\* and one of MaxChunks full chunks
RtSizes == {chunk_size * 2 + 5, chunk_size * MaxChunks}

\* int((bytes_written / total_size) * 100)
Percentage(bytes_written, total_size) == (bytes_written * 100) \div total_size

\* variant: every chunk is reported
ShouldReport_always(current_percentage, last) == TRUE

\* if current_percentage > self._last_reported_percentage
ShouldReport(current_percentage, last) == current_percentage > last

\* expected_time > (t - start_time), with
\* expected_time = bytes_written / rate_limit and rate_limit = total_size / duration
ExpectedExceeds(r, t) ==
    r.bytes_written * r.duration * 1000 > (t - r.start_time) * r.total_size

\* the argument of time.sleep is negative: expected_time < (t - start_time)
SleepNegative(r, t) ==
    r.bytes_written * r.duration * 1000 < (t - r.start_time) * r.total_size

\* variant: the pacing sleep returns at once
time_sleep_none(r, t) == t

\* time.sleep(expected_time - (t - start_time)) called at clock t: the first
\* clock reading at which the whole requested time has passed
time_sleep(r, t) ==
    r.start_time
      + ((r.bytes_written * r.duration * 1000 + r.total_size - 1) \div r.total_size)

\* what may hold the thread up, once in a write: a slow read of the stream,
\* a preemption between the two clock reads of the pacing test of
\* download_try, a sleep that lasts longer than requested
RtDelays(r) ==
    IF r.slow THEN {"none"}
    ELSE IF Mode = "episode" THEN {"none", "read", "oversleep"}
    ELSE {"none", "read", "preempt", "oversleep"}

\* len(chunk) of c_stream.read(chunk_size)
ChunkLen(r) ==
    IF r.total_size - r.bytes_written < chunk_size
    THEN r.total_size - r.bytes_written ELSE chunk_size

\* a track or an episode about to open its output file for a real-time write
InitRealtime ==
    /\ \E m \in {"track", "episode"} :
          preferences = [mode |-> m, n |-> 1, convert_to |-> FALSE,
                         max_retries |-> 1, make_zip |-> FALSE,
                         meta |-> [i \in Items |-> "meta"],
                         image |-> [i \in Items |-> "bytes"]]
    /\ fs = [p \in Paths |-> NoFile]
    /\ registry = Reg({OutPath(1)}, OutPath(1))
    /\ CLEANUP_LOCK = FALSE
    /\ GLOBAL_RETRY_COUNT = 0
    /\ pc = "rt_open"
    /\ idx = 1
    /\ song_path = OutPath(1)
    /\ c_track = Track(1, OutPath(1))
    /\ retries = 0
    /\ retry_delay = initial_retry_delay
    /\ conv_try = 1
    /\ exc = "none"
    /\ tracks = <<>>
    /\ failed_track_indices = <<>>
    /\ zip_path = [made |-> FALSE, items |-> <<>>]
    /\ m3u = <<>>
    /\ events = <<>>
    /\ net = {}
    /\ hist = Hist0
    /\ \E S \in RtSizes, D \in 1..MaxDuration, t \in {0, 1500} :
          rt = [RtIdle EXCEPT !.total_size = S, !.duration = D, !.now = t]

\* open(song_path, "wb"), rate_limit, bytes_written = 0,
\* start_time = time.time(), _last_reported_percentage = -1
RealtimeBegin ==
    /\ pc = "rt_open"
    /\ fs' = [fs EXCEPT ![song_path] = MkFile("partial")]
    /\ rt' = [rt EXCEPT !.bytes_written = 0, !.start_time = rt.now,
                        !.last_reported_percentage = -1, !.paced = FALSE]
    /\ pc' = "rt_loop"
    /\ UNCHANGED <<preferences, registry, CLEANUP_LOCK, GLOBAL_RETRY_COUNT, idx,
                   song_path, c_track, retries, retry_delay, conv_try, exc, tracks,
                   failed_track_indices, zip_path, m3u, events, net, hist>>

\* what progress_reporter.report does when called: return, or raise
SinkOutcomes == {"ok", "raise"}

\* one iteration of the loop of download_try from the state r with the delay
\* d and the sink behaving as s: read and write a chunk, report the
\* percentage if it grew, pace. An exception (of the sink, or the ValueError
\* of time.sleep called with a negative number) is caught by the handler of
\* the write: it removes the partial file and unregisters the path.
WriteChunk(r, d, s) ==
    LET current_time == r.now + (IF d = "read" THEN 700 ELSE 0)
        current_percentage ==
            Percentage(r.bytes_written + ChunkLen(r), r.total_size)
        report == ShouldReport(current_percentage, r.last_reported_percentage)
        r1 == [r EXCEPT !.bytes_written = @ + ChunkLen(r),
                        !.now = current_time,
                        !.last_reported_percentage =
                            IF report THEN current_percentage ELSE @,
                        !.slow = @ \/ d # "none"]
        t3 == current_time + (IF d = "preempt" THEN 50 ELSE 0)
        ev == IF report
              THEN Append(events, Ev("track", "real-time", idx, Parent,
                                     current_time - r.start_time, current_percentage))
              ELSE events
        failed(r2) == [rt |-> [r2 EXCEPT !.paced = FALSE], pc |-> "rt_failed",
                       events |-> ev, fs |-> Remove(fs, song_path),
                       registry |-> unregister_active_download(registry, song_path)]
        paced(r2) == [rt |-> [r2 EXCEPT !.paced = TRUE], pc |-> "rt_loop",
                      events |-> ev, fs |-> fs, registry |-> registry]
    IN  IF report /\ s = "raise"
        THEN failed(r1)
        ELSE IF ExpectedExceeds(r1, current_time)
             THEN IF SleepNegative(r1, t3)
                  THEN failed([r1 EXCEPT !.now = t3])
                  ELSE paced([r1 EXCEPT !.now = time_sleep(r1, t3)
                                          + (IF d = "oversleep" THEN 50 ELSE 0)])
             ELSE paced(r1)

RealtimeChunk ==
    /\ pc = "rt_loop"
    /\ Mode # "episode"
    /\ rt.bytes_written < rt.total_size
    /\ \E d \in RtDelays(rt), s \in SinkOutcomes :
          LET w == WriteChunk(rt, d, s) IN
              /\ rt' = w.rt
              /\ pc' = w.pc
              /\ events' = w.events
              /\ fs' = w.fs
              /\ registry' = w.registry
    /\ UNCHANGED <<preferences, CLEANUP_LOCK, GLOBAL_RETRY_COUNT, idx, song_path,
                   c_track, retries, retry_delay, conv_try, exc, tracks,
                   failed_track_indices, zip_path, m3u, net, hist>>

\* one iteration of the loop of download_eps: the clock is read once for the
\* pacing test and nothing is reported
EpsRealtimeChunk ==
    /\ pc = "rt_loop"
    /\ Mode = "episode"
    /\ rt.bytes_written < rt.total_size
    /\ \E d \in RtDelays(rt) :
          LET t == rt.now + (IF d = "read" THEN 700 ELSE 0)
              r1 == [rt EXCEPT !.bytes_written = @ + ChunkLen(rt),
                               !.now = t,
                               !.slow = @ \/ d # "none"]
          IN  IF ExpectedExceeds(r1, t)
              THEN rt' = [r1 EXCEPT
                            !.now = time_sleep(r1, t)
                                    + (IF d = "oversleep" THEN 50 ELSE 0),
                            !.paced = TRUE]
              ELSE rt' = [r1 EXCEPT !.paced = TRUE]
    /\ UNCHANGED <<preferences, fs, registry, CLEANUP_LOCK, GLOBAL_RETRY_COUNT, pc,
                   idx, song_path, c_track, retries, retry_delay, conv_try, exc,
                   tracks, failed_track_indices, zip_path, m3u, events, net, hist>>

\* c_stream.read raises in the loop: the partial file is removed and the
\* path unregistered
RealtimeReadFail ==
    /\ pc = "rt_loop"
    /\ rt.bytes_written < rt.total_size
    /\ pc' = "rt_failed"
    /\ rt' = [rt EXCEPT !.paced = FALSE]
    /\ fs' = Remove(fs, song_path)
    /\ registry' = unregister_active_download(registry, song_path)
    /\ UNCHANGED <<preferences, CLEANUP_LOCK, GLOBAL_RETRY_COUNT, idx, song_path,
                   c_track, retries, retry_delay, conv_try, exc, tracks,
                   failed_track_indices, zip_path, m3u, events, net, hist>>

\* the read returns no chunk: break, close; download_try unregisters the
\* path, download_eps leaves it registered
RealtimeEnd ==
    /\ pc = "rt_loop"
    /\ rt.bytes_written = rt.total_size
    /\ fs' = [fs EXCEPT ![song_path] = MkFile("raw")]
    /\ registry' = IF Mode = "episode" THEN registry
                   ELSE unregister_active_download(registry, song_path)
    /\ pc' = "rt_written"
    /\ UNCHANGED <<preferences, CLEANUP_LOCK, GLOBAL_RETRY_COUNT, idx, song_path,
                   c_track, retries, retry_delay, conv_try, exc, tracks,
                   failed_track_indices, zip_path, m3u, events, net, hist, rt>>

NextRealtime ==
    \/ RealtimeBegin
    \/ RealtimeChunk
    \/ EpsRealtimeChunk
    \/ RealtimeReadFail
    \/ RealtimeEnd

SpecRealtime == InitRealtime /\ [][NextRealtime]_vars

\* ------------------------------------- __convert_audio, statement by statement
\* The signal handler runs between any two statements of the main thread, so
\* here each statement of __convert_audio that touches the disk or the
\* registry is a step of its own.

\* an item whose write stage is over: the streamed file is at the output path
\* (or missing, after a failed write of a track); download_try has
\* unregistered the path, download_eps has not; items before it are done
InitConvert ==
    /\ \E m \in {"track", "episode", "album", "playlist"}, c \in BOOLEAN :
          preferences = [mode |-> m,
                         n |-> IF m \in {"album", "playlist"} THEN MaxItems ELSE 1,
                         convert_to |-> c, max_retries |-> 1, make_zip |-> FALSE,
                         meta |-> [i \in Items |-> "meta"],
                         image |-> [i \in Items |-> "bytes"]]
    /\ idx \in 1..NItems
    /\ song_path = OutPath(idx)
    /\ \E w \in {"raw", "none"} :
          /\ w = "none" => Mode # "episode"
          /\ fs = [p \in Paths |->
                     IF p = song_path THEN MkFile(w)
                     ELSE IF p[1] = "ogg" /\ p[2] < idx
                          THEN [audio |-> "norm", fp |-> p[2], ver |-> "cur"]
                          ELSE NoFile]
    /\ registry = IF Mode = "episode" THEN Reg({song_path}, song_path)
                  ELSE Reg({}, NoPath)
    /\ CLEANUP_LOCK = FALSE
    /\ GLOBAL_RETRY_COUNT = 0
    /\ pc = "cv_replace"
    /\ c_track = Track(idx, song_path)
    /\ retries = 0
    /\ retry_delay = initial_retry_delay
    /\ conv_try = 1
    /\ exc = "none"
    /\ tracks = <<>>
    /\ failed_track_indices = <<>>
    /\ zip_path = [made |-> FALSE, items |-> <<>>]
    /\ m3u = <<>>
    /\ events = <<>>
    /\ net = {}
    /\ hist = Hist0
    /\ rt = RtIdle

\* os_replace(self.__song_path, temp_filename), before the try block
CvReplace ==
    /\ pc = "cv_replace"
    /\ IF Exists(fs, song_path)
       THEN fs' = OsReplace(fs, song_path, TempName(song_path)) /\ pc' = "cv_register_temp"
       ELSE fs' = fs /\ pc' = "cv_raised"
    /\ UNCHANGED <<preferences, registry, CLEANUP_LOCK, GLOBAL_RETRY_COUNT,
                   idx, song_path, c_track, retries, retry_delay, conv_try,
                   exc, tracks, failed_track_indices, zip_path, m3u, events,
                   net, hist, rt>>

\* register_active_download(temp_filename)
CvRegisterTemp ==
    /\ pc = "cv_register_temp"
    /\ registry' = register_active_download(registry, TempName(song_path))
    /\ pc' = "cv_system"
    /\ UNCHANGED <<preferences, fs, CLEANUP_LOCK, GLOBAL_RETRY_COUNT, idx,
                   song_path, c_track, retries, retry_delay, conv_try, exc,
                   tracks, failed_track_indices, zip_path, m3u, events, net,
                   hist, rt>>

\* system(ffmpeg_cmd) with the outcomes of Normalize
CvSystem ==
    /\ pc = "cv_system"
    /\ \E o \in NormalizeOutcomes :
          /\ fs' = IF o = "ok" THEN [fs EXCEPT ![song_path] = MkFile("norm")] ELSE fs
          /\ pc' = IF o = "raise" THEN "cv_restore" ELSE "cv_register_out"
    /\ UNCHANGED <<preferences, registry, CLEANUP_LOCK, GLOBAL_RETRY_COUNT,
                   idx, song_path, c_track, retries, retry_delay, conv_try,
                   exc, tracks, failed_track_indices, zip_path, m3u, events,
                   net, hist, rt>>

\* register_active_download(self.__song_path)
CvRegisterOut ==
    /\ pc = "cv_register_out"
    /\ registry' = register_active_download(registry, song_path)
    /\ pc' = "cv_remove_temp"
    /\ UNCHANGED <<preferences, fs, CLEANUP_LOCK, GLOBAL_RETRY_COUNT, idx,
                   song_path, c_track, retries, retry_delay, conv_try, exc,
                   tracks, failed_track_indices, zip_path, m3u, events, net,
                   hist, rt>>

\* if os.path.exists(temp_filename): remove(temp_filename)
CvRemoveTemp ==
    /\ pc = "cv_remove_temp"
    /\ fs' = Remove(fs, TempName(song_path))
    /\ pc' = IF Exists(fs, TempName(song_path)) THEN "cv_unregister_temp" ELSE "cv_step2"
    /\ UNCHANGED <<preferences, registry, CLEANUP_LOCK, GLOBAL_RETRY_COUNT,
                   idx, song_path, c_track, retries, retry_delay, conv_try,
                   exc, tracks, failed_track_indices, zip_path, m3u, events,
                   net, hist, rt>>

\* unregister_active_download(temp_filename)
CvUnregisterTemp ==
    /\ pc = "cv_unregister_temp"
    /\ registry' = unregister_active_download(registry, TempName(song_path))
    /\ pc' = "cv_step2"
    /\ UNCHANGED <<preferences, fs, CLEANUP_LOCK, GLOBAL_RETRY_COUNT, idx,
                   song_path, c_track, retries, retry_delay, conv_try, exc,
                   tracks, failed_track_indices, zip_path, m3u, events, net,
                   hist, rt>>

\* step 2: convert_audio starts when a target format was requested
CvStep2 ==
    /\ pc = "cv_step2"
    /\ IF preferences.convert_to
       THEN LET st == convert_audio_start(fs, registry, ConvPath(idx)) IN
                fs' = st.fs /\ registry' = st.reg /\ pc' = "cv_encoding"
       ELSE fs' = fs /\ registry' = registry /\ pc' = "cv_returned"
    /\ UNCHANGED <<preferences, CLEANUP_LOCK, GLOBAL_RETRY_COUNT, idx,
                   song_path, c_track, retries, retry_delay, conv_try, exc,
                   tracks, failed_track_indices, zip_path, m3u, events, net,
                   hist, rt>>

\* convert_audio ends; its failure is caught inside __convert_audio
CvEncode ==
    /\ pc = "cv_encoding"
    /\ \E o \in {"ok", "raise"} :
          /\ o = "ok" => Exists(fs, song_path)
          /\ LET r == convert_audio_end(fs, registry, song_path, ConvPath(idx), o) IN
                /\ fs' = r.fs
                /\ registry' = r.reg
                /\ song_path' = r.path
                /\ c_track' = [c_track EXCEPT !.song_path = r.path]
    /\ pc' = "cv_returned"
    /\ UNCHANGED <<preferences, CLEANUP_LOCK, GLOBAL_RETRY_COUNT, idx, retries,
                   retry_delay, conv_try, exc, tracks, failed_track_indices,
                   zip_path, m3u, events, net, hist, rt>>

\* except branch: restore the original when the output is missing
CvRestore ==
    /\ pc = "cv_restore"
    /\ fs' = IF Exists(fs, TempName(song_path)) /\ ~Exists(fs, song_path)
             THEN OsReplace(fs, TempName(song_path), song_path) ELSE fs
    /\ pc' = "cv_cleanup_temp"
    /\ UNCHANGED <<preferences, registry, CLEANUP_LOCK, GLOBAL_RETRY_COUNT,
                   idx, song_path, c_track, retries, retry_delay, conv_try,
                   exc, tracks, failed_track_indices, zip_path, m3u, events,
                   net, hist, rt>>

\* except branch: if os.path.exists(temp_filename): remove, unregister; raise
CvCleanupTemp ==
    /\ pc = "cv_cleanup_temp"
    /\ fs' = Remove(fs, TempName(song_path))
    /\ registry' = IF Exists(fs, TempName(song_path))
                   THEN unregister_active_download(registry, TempName(song_path))
                   ELSE registry
    /\ pc' = "cv_raised"
    /\ UNCHANGED <<preferences, CLEANUP_LOCK, GLOBAL_RETRY_COUNT, idx,
                   song_path, c_track, retries, retry_delay, conv_try, exc,
                   tracks, failed_track_indices, zip_path, m3u, events, net,
                   hist, rt>>

\* signal_handler while __convert_audio runs: the cleanup routine, then
\* sys.exit and the atexit hook with the cleanup routine again
CvSignal ==
    /\ pc \notin {"cv_returned", "cv_raised", "exited"}
    /\ LET c1 == cleanup_active_downloads(fs, registry, CLEANUP_LOCK)
           c2 == cleanup_active_downloads(c1.fs, c1.reg, CLEANUP_LOCK)
       IN /\ fs' = c2.fs
          /\ registry' = c2.reg
          /\ hist' = [hist EXCEPT !.del = @ \cup c1.del \cup c2.del, !.sigpc = pc,
                                  !.sigcur = registry.current]
    /\ pc' = "exited"
    /\ UNCHANGED <<preferences, CLEANUP_LOCK, GLOBAL_RETRY_COUNT, idx,
                   song_path, c_track, retries, retry_delay, conv_try, exc,
                   tracks, failed_track_indices, zip_path, m3u, events, net,
                   rt>>

NextConvert ==
    \/ CvReplace \/ CvRegisterTemp \/ CvSystem \/ CvRegisterOut \/ CvRemoveTemp
    \/ CvUnregisterTemp \/ CvStep2 \/ CvEncode \/ CvRestore \/ CvCleanupTemp
    \/ CvSignal

SpecConvert == InitConvert /\ [][NextConvert]_vars

\* ================================================================== claims
DoneEmitted(i) ==
    \E k \in 1..Len(events) :
        events[k].type = "track" /\ events[k].status = "done" /\ events[k].item = i

LastEvent == events[Len(events)]

ConvertStages == {"convert", "normalizing", "transcoding", "conv_wait", "tag"}

\* C1: when DW_PLAYLIST.dw has returned, the track list has one entry per
\* input item, entry i is the result of item i, and an entry is marked
\* success=False exactly when the download of its item raised.
C1_PlaylistResultPerItem ==
    (Mode = "playlist" /\ pc = "returned") =>
        /\ Len(tracks) = NItems
        /\ \A i \in 1..NItems :
              /\ tracks[i].item = i
              /\ tracks[i].success = (i \notin hist.raised)

\* C2: a batch aggregator (album or playlist) never ends by raising an
\* exception that came out of the processing of one of its items.
C2_ItemExceptionsStayInLoop ==
    (Mode \in {"album", "playlist"} /\ pc = "raised") =>
        exc \notin {"MaxRetries", "Conversion", "Write", "Tagging", "TrackNotFound"}

\* C3: below the global cap, the terminal error of an acquisition that failed
\* every time is raised after exactly max_retries attempts (no further attempt
\* is started once max_retries have failed); no file is then at the output
\* path and the path is not registered.
C3_ExactlyMaxRetriesAttempts ==
    /\ (pc = "acquire" /\ GLOBAL_RETRY_COUNT < GLOBAL_MAX_RETRIES) =>
          retries < preferences.max_retries
    /\ (pc = "item_exc" /\ exc = "MaxRetries"
        /\ GLOBAL_RETRY_COUNT < GLOBAL_MAX_RETRIES) =>
          /\ hist.attempts = preferences.max_retries
          /\ ~Exists(fs, song_path)
          /\ song_path \notin registry.active
          /\ registry.current # song_path

C3_Witness ==
    /\ pc = "item_exc" /\ exc = "MaxRetries"
    /\ GLOBAL_RETRY_COUNT < GLOBAL_MAX_RETRIES
    /\ hist.attempts = MaxRetriesChoice

\* C4: when the orchestrator returns for an item that had a file with its
\* title and album on disk when it started, the result is success=False,
\* was_skipped=True and every file on disk has the bytes it had at the start.
C4_SkipLeavesFilesUntouched ==
    (pc = "item_ret" /\ Mode # "episode" /\ track_exists(hist.fs0, idx)) =>
        /\ ~c_track.success
        /\ c_track.was_skipped
        /\ fs = hist.fs0

\* C5: an item that was skipped has "skipped" as its last event and no
\* network call (cover image, stream) was made for it.
C5_SkipMakesNoNetworkCall ==
    (pc = "item_ret" /\ c_track.was_skipped) =>
        /\ LastEvent.status = "skipped" /\ LastEvent.item = idx
        /\ \A c \in net : c[1] # idx

\* C6: after a termination signal that arrived during the WRITE stage of a
\* batch item, the cleanup routine has deleted exactly the file at the
\* current pointer, which is the file being written, and every output file
\* of an item completed earlier in the batch is still on disk.
C6_SignalInWriteDeletesOnlyCurrent ==
    (pc = "exited" /\ hist.sigpc = "write") =>
        /\ hist.sigcur = song_path
        /\ hist.del = {hist.sigcur}
        /\ \A p \in hist.done : Exists(fs, p)

C6_Witness ==
    /\ pc = "exited" /\ hist.sigpc = "write"
    /\ Mode \in {"album", "playlist"}
    /\ hist.done # {}
    /\ hist.del = {song_path}

\* C7: the cleanup routine never deletes the output file of an item that has
\* completed in this run.
C7_CleanupSparesCompleted ==
    hist.del \cap hist.done = {}

\* C8: once writing the stream has raised, the item is not taken into the
\* conversion stage: the partial file is gone, the path is unregistered and
\* the exception is on its way to the caller.
C8_WriteFailureRaised ==
    hist.wfail =>
        /\ pc \notin ConvertStages
        /\ ~Exists(fs, song_path)
        /\ song_path \notin registry.active

\* C9: an item whose format transcode failed never returns a result and
\* never reports "done"; no temp file of the item is left.
C9_TranscodeFailureTerminal ==
    (hist.tfail /\ pc \notin {"transcoding", "tag"}) =>
        /\ pc # "item_ret"
        /\ ~DoneEmitted(idx)
        /\ ~Exists(fs, TmpPath(idx))

\* C10: a tagging failure never reaches the caller of write_tags: no item
\* ends with a tagging exception, and an item that was downloaded and
\* converted returns the same successful result and reports "done" also
\* when the tag writer failed.
C10_TaggingNeverRaises ==
    /\ exc # "Tagging"
    /\ (hist.tagfail /\ pc \in {"item_ret", "item_exc"}) =>
          /\ pc = "item_ret"
          /\ c_track.item = idx
          /\ ~c_track.was_skipped =>
                /\ c_track = Track(idx, OutPath(idx))
                /\ Mode # "episode" => DoneEmitted(idx)

C10_Witness ==
    /\ pc = "item_ret" /\ hist.tagfail /\ c_track.success
    /\ Exists(fs, c_track.song_path) /\ fs[c_track.song_path].fp = 0

\* C11: a result with success=False and was_skipped=True is never reported
\* as an error: no "error" event names its item, its index is not in the
\* failure records of the aggregate, and the failed count of the aggregate's
\* "done" event counts only the results that are failed and not skipped.
C11_SkippedNotReportedAsError ==
    /\ \A k \in 1..Len(tracks) :
          (~tracks[k].success /\ tracks[k].was_skipped) =>
              /\ \A j \in 1..Len(failed_track_indices) :
                    failed_track_indices[j] # tracks[k].item
              /\ \A j \in 1..Len(events) :
                    ~(events[j].status = "error" /\ events[j].item = tracks[k].item)
    /\ (Mode = "playlist" /\ pc = "returned") =>
          LastEvent.counts.failed_tracks = Cardinality({k \in 1..Len(tracks) :
                                  ~tracks[k].success /\ ~tracks[k].was_skipped})


\* C12: the process-wide retry counter never decreases, whichever item is
\* processed; no sleep-and-retry follows an acquisition failure once the
\* counter has reached GLOBAL_MAX_RETRIES: every acquisition failure counted
\* at or beyond the maximum ends the item with the retry-limit error,
\* whatever the item's local retry count.
C12_GlobalCapStopsRetries ==
    [][ /\ GLOBAL_RETRY_COUNT' >= GLOBAL_RETRY_COUNT
        /\ (GLOBAL_RETRY_COUNT' >= GLOBAL_MAX_RETRIES) => pc' # "retry_wait"
        /\ (GLOBAL_RETRY_COUNT' > GLOBAL_RETRY_COUNT
            /\ GLOBAL_RETRY_COUNT' >= GLOBAL_MAX_RETRIES) =>
              (pc' = "item_exc" /\ exc' = "MaxRetries") ]_vars

\* a later item of a batch fails once, below its local cap, after an earlier
\* item brought the counter to the maximum
C12_Witness ==
    /\ pc = "item_exc" /\ exc = "MaxRetries"
    /\ idx = 2
    /\ GLOBAL_RETRY_COUNT > GLOBAL_MAX_RETRIES
    /\ retries < preferences.max_retries


\* C13: when a batch aggregator (album or playlist) has returned, the
\* aggregate result carries an archive if and only if archiving was requested
\* and at least one item has success=True (and the archiver did not fail),
\* and the archive was built from exactly the results with success=True.
C13_ArchiveOfSuccessfulOnly ==
    (Mode \in {"album", "playlist"} /\ pc = "returned") =>
        /\ zip_path.made =>
              /\ preferences.make_zip
              /\ Successful(tracks) # <<>>
              /\ zip_path.items = Successful(tracks)
        /\ (preferences.make_zip /\ Successful(tracks) # <<>> /\ ~hist.zipfail) =>
              zip_path.made


\* the song_path of each result, in list order
RECURSIVE PathsOf(_)
PathsOf(ts) ==
    IF ts = <<>> THEN <<>> ELSE <<Head(ts).song_path>> \o PathsOf(Tail(ts))

\* C14: after a playlist batch (DW_PLAYLIST.dw or download_playlistspo) the
\* playlist file, when there is one, is the header line followed by exactly
\* one line per item of the batch that succeeded, in input order, and
\* nothing else.
C14_PlaylistFileLines ==
    (Mode \in {"playlist", "playlistspo"} /\ pc = "returned" /\ events # <<>>
     /\ m3u # <<>> /\ ~hist.zipfail) =>
        m3u = <<"#EXTM3U">> \o PathsOf(Successful(tracks))


\* C15: in a batch (album or playlist) the first event is the aggregate's
\* "initializing", and when the aggregator has returned after its loop the
\* last event is the aggregate's "done", which carries the total, the
\* successful and the failed count.
C15_InitializingFirstDoneLastWithCounts ==
    (Mode \in {"album", "playlist", "playlistspo"} /\ events # <<>>) =>
        LET agg == IF Mode = "album" THEN "album" ELSE "playlist" IN
        /\ events[1].type = agg /\ events[1].status = "initializing"
        /\ \A k \in 2..Len(events) : events[k].status # "initializing"
        /\ pc = "returned" =>
              /\ LastEvent.type = agg /\ LastEvent.status = "done"
              /\ \A k \in 1..(Len(events) - 1) : events[k].status # "done"
                                                 \/ events[k].type # agg
              /\ {"total_tracks", "successful_tracks", "failed_tracks"}
                    \subseteq DOMAIN LastEvent.counts


\* C16: register(p) adds p to the active set, changes no other member and
\* makes p the current pointer; unregister(p) takes p out of the active set
\* and changes no other member, clears the current pointer when it was p and
\* leaves it otherwise; unregister of a path that is not registered changes
\* nothing.
C16_RegisterUnregister ==
    /\ hist.op = "register" =>
          /\ registry.active = hist.before.active \cup {hist.arg}
          /\ registry.current = hist.arg
    /\ hist.op = "unregister" =>
          /\ registry.active = hist.before.active \ {hist.arg}
          /\ registry.current = IF hist.before.current = hist.arg THEN NoPath
                                ELSE hist.before.current
          /\ hist.arg \notin hist.before.active => registry = hist.before

\* a registered path other than the current one was unregistered while
\* another path stayed registered
C16_Witness ==
    /\ hist.op = "unregister"
    /\ hist.arg \in hist.before.active
    /\ hist.before.current \notin {NoPath, hist.arg}
    /\ registry.current = hist.before.current
    /\ registry.active # {}

\* C17: after the cleanup routine has run at termination, the registry is
\* cleared: the current pointer is none and the active set is empty.
C17_CleanupClearsRegistry ==
    pc = "exited" => registry = Reg({}, NoPath)


\* the "retrying" events of item i, in the order they were emitted
RetryingOf(i) ==
    SelectSeq(events, LAMBDA e : e.status = "retrying" /\ e.item = i)

C19_ConversionRetryKeepsAudio ==
    (pc = "convert" /\ conv_try = 2 /\ ~hist.wfail) =>
        /\ hist.slept = retry_delay - retry_delay_increase
        /\ Exists(fs, song_path) \/ Exists(fs, TempName(song_path))


\* the "error" events of item i
ErrorsOf(i) ==
    SelectSeq(events, LAMBDA e : e.status = "error" /\ e.item = i)

C21_PlaylistFileAppendOnly ==
    [][ /\ Len(m3u') >= Len(m3u)
        /\ SubSeq(m3u', 1, Len(m3u)) = m3u ]_vars


C23_RealtimePercentagesIncrease ==
    pc \in {"rt_loop", "rt_written", "rt_failed"} =>
        /\ \A k \in 1..Len(events) :
              /\ events[k].status = "real-time"
              /\ events[k].b \in 0..100
              /\ events[k].a >= 0
              /\ events[k].a <= rt.now - rt.start_time
        /\ \A k \in 1..(Len(events) - 1) :
              /\ events[k].b < events[k + 1].b
              /\ events[k].a <= events[k + 1].a

\* a finished write of more chunks than events: some chunk did not raise the
\* percentage and was not reported
C23_Witness ==
    /\ pc = "rt_written"
    /\ Len(events) >= 2
    /\ Len(events) * chunk_size < rt.bytes_written

\* C24: in a real-time write of declared size S and duration D > 0, after the
\* pacing step of every chunk the time elapsed since the write started is at
\* least bytes_written * D / S, and a write that delivered all S bytes took
\* at least D seconds.
C24_PacingLowerBound ==
    /\ (pc \in {"rt_loop", "rt_written"} /\ rt.paced) =>
           (rt.now - rt.start_time) * rt.total_size
               >= rt.bytes_written * rt.duration * 1000
    /\ (pc = "rt_written" /\ rt.bytes_written = rt.total_size) =>
           rt.now - rt.start_time >= rt.duration * 1000

\* a write that delivered every byte in exactly the duration: each chunk
\* was paced by a sleep
C24_Witness ==
    /\ pc = "rt_written"
    /\ rt.bytes_written = rt.total_size
    /\ rt.paced
    /\ rt.now - rt.start_time = rt.duration * 1000
    /\ rt.start_time > 0

\* C25: container normalization that returns to its caller leaves the file at
\* the output path (normalized, or the original when the copy failed) and no
\* temp file; it never ends with neither file present.
C25_NormalizationIsASwap ==
    [][ (pc = "normalizing" /\ pc' \in {"transcoding", "tag"}) =>
            /\ Exists(fs', song_path)
            /\ ~Exists(fs', TempName(song_path)) ]_vars

\* C26: after a termination signal that arrived during the conversion
\* pipeline and the cleanup routine it ran, no temp file of the conversion is
\* on disk.
C26_SignalLeavesNoTempFile ==
    pc = "exited" => \A i \in Items : ~Exists(fs, TmpPath(i))

\* C27: the stages of an item are entered in order only: WRITE after an
\* acquisition that succeeded, CONVERT after a WRITE that finished without
\* exception (or after the wait of the conversion retry), TAG after a
\* conversion that returned, the "done" event of a track from TAG, and nothing after
\* the item has returned or raised but the aggregate's own steps.
C27_StagesInOrder ==
    [][ /\ (pc' = "write" /\ pc # "write") => pc = "acquire"
        /\ (pc' = "convert" /\ pc # "convert") =>
               \/ pc = "write" /\ ~hist'.wfail /\ Exists(fs', song_path)
               \/ pc = "conv_wait"
        /\ (pc' = "tag" /\ pc # "tag") => pc \in {"normalizing", "transcoding"}
        /\ (Len(events') > Len(events) /\ events'[Len(events')].status = "done"
              /\ events'[Len(events')].type = "track") => pc = "tag"
        /\ pc \in {"item_ret", "item_exc"} =>
               pc' \notin {"check", "acquire", "retry_wait", "write", "convert",
                           "normalizing", "transcoding", "conv_wait", "tag"} ]_vars

C29_BaseDescriptorUnchanged ==
    [][ preferences' = preferences ]_vars

\* C30: the sink does not influence control flow: from any state of the
\* real-time write of a track, with the same chunk and the same delay, the
\* iteration ends at the same position, with the same bytes written, the
\* same files and the same registry whether the sink's report call returns
\* or raises.
C30_SinkDoesNotInfluence ==
    (pc = "rt_loop" /\ Mode # "episode" /\ rt.bytes_written < rt.total_size) =>
        \A d \in RtDelays(rt) :
            LET a == WriteChunk(rt, d, "ok")
                b == WriteChunk(rt, d, "raise")
            IN  /\ a.pc = b.pc
                /\ a.rt.bytes_written = b.rt.bytes_written
                /\ a.fs = b.fs
                /\ a.registry = b.registry

\* C31: every status record of the orchestrator and the aggregators goes to
\* the progress sink; none is written to standard output.
C31_NothingPrinted ==
    hist.printed = {}

\* C32: after any sequence of register, unregister and cleanup calls the
\* current pointer is none or a member of the active set.
C32_CurrentIsActive ==
    registry.current = NoPath \/ registry.current \in registry.active

\* the cleanup routine has just deleted the current file while another path
\* stays registered
C32_Witness ==
    /\ hist.op = "cleanup"
    /\ hist.arg # NoPath
    /\ ~Exists(fs, hist.arg)
    /\ registry.current = NoPath
    /\ registry.active # {}
    /\ registry # hist.before

\* the paths of item i: its output, its conversion temp and its converted file
ItemPaths(i) == {OutPath(i), TmpPath(i), ConvPath(i)}

\* C33: when the orchestrator has finished an item (returned its result or
\* raised a terminal error) none of the item's paths is in the registry and
\* the current pointer does not refer to the item; between two items of a
\* batch the registry is empty.
C33_RegistryClearAfterItem ==
    /\ (pc \in {"item_ret", "item_exc"} /\ idx \in Items) =>
          /\ registry.active \cap ItemPaths(idx) = {}
          /\ registry.current \notin ItemPaths(idx)
    /\ pc = "loop" => registry = Reg({}, NoPath)

\* C34: when a termination signal has run the cleanup routine and the exit
\* has run it again, at most one file has been deleted in all, the one that
\* was current when the signal arrived; and an invocation of the routine
\* that started while another was in progress has deleted nothing.
C34_CleanupOnceAndNotReentrant ==
    /\ (pc = "exited" /\ hist.first = "signal") => hist.del \subseteq {hist.sigcur}
    /\ hist.nested_del = {}

\* C35: when the orchestrator has returned a non-skipped result for an item
\* and the item's "done" event has been emitted, a file exists at the
\* result's output path.
C35_DoneResultHasFile ==
    (/\ pc = "item_ret"
     /\ Mode \in {"track", "album", "playlist"}
     /\ ~c_track.was_skipped
     /\ DoneEmitted(idx)) => Exists(fs, c_track.song_path)

\* C36: when download_try lets an exception propagate for an item (retries
\* exhausted, write failure or conversion failure), at least one "error"
\* event has been emitted for the item.
C36_FailureHasErrorEvent ==
    (/\ pc = "item_exc"
     /\ Mode \in {"track", "album", "playlist"}
     /\ exc \in {"MaxRetries", "Write", "Conversion"}) => ErrorsOf(idx) # <<>>

\* C37: once an "error" event has been emitted for an item, no "done" event
\* is emitted for that item afterwards.
C37_NoDoneAfterError ==
    \A j \in 1..Len(events), k \in 1..Len(events) :
        (/\ j < k
         /\ events[j].type = "track" /\ events[j].status = "error"
         /\ events[k].type = "track" /\ events[k].status = "done")
            => events[k].item # events[j].item

\* an item of a batch has ended after both conversion attempts reported an
\* error, and a later item of the batch has reported "done"
C37_Witness ==
    \E j \in 1..Len(events), k \in 1..Len(events) :
        /\ j < k
        /\ events[j].type = "track" /\ events[j].status = "error"
        /\ events[k].type = "track" /\ events[k].status = "done"
        /\ Len(ErrorsOf(events[j].item)) = 2
        /\ hist.raised # {}

\* C38 as stated: the existence check has answered; whenever an error
\* occurred while listing the directory or reading tags, or the directory
\* is missing, the answer is "not present".
C38_AnyErrorAnswersAbsent ==
    pc = "te_done" =>
        /\ hist.answer \in {"present", "absent"}
        /\ (hist.dir # "ok" \/ hist.errors > 0) => hist.answer = "absent"

\* C38: the existence check never raises; a missing directory or an error
\* while listing it answers "not present"; an entry whose tags cannot be
\* read counts as not matching, and the answer is "present" exactly when an
\* entry with a readable format carries the title and the album of the item.
C38_ErrorsCountAsNoMatch ==
    pc = "te_done" =>
        /\ hist.answer \in {"present", "absent"}
        /\ hist.dir # "ok" => hist.answer = "absent"
        /\ hist.answer = "present" <=>
              \E k \in 1..Len(hist.files) :
                  /\ hist.files[k].kind = "match"
                  /\ hist.files[k].ext \in {"mp3", "ogg"}

\* the reader raised on the first entry and the second entry matches
C38_Witness ==
    /\ pc = "te_done"
    /\ hist.errors > 0
    /\ hist.answer = "present"
    /\ hist.pos = 2

\* the results of a list with success=False
Unsuccessful(ts) == SelectSeq(ts, LAMBDA t : ~t.success)

\* C39: when DW_PLAYLIST.dw has returned, the failed count of its "done"
\* event equals the number of results with success=False, the number of
\* failure records equals that count, and the successful count plus the
\* failed count equals the length of the result list.
C39_PlaylistCountsAgree ==
    (pc = "returned" /\ Mode = "playlist") =>
        /\ LastEvent.type = "playlist" /\ LastEvent.status = "done"
        /\ LastEvent.counts.failed_tracks = Len(Unsuccessful(tracks))
        /\ Len(failed_track_indices) = Len(Unsuccessful(tracks))
        /\ LastEvent.counts.successful_tracks + LastEvent.counts.failed_tracks
              = Len(tracks)

\* a playlist has returned after the playlist file could not be appended to
\* for one item and another item was skipped or failed
C39_Witness ==
    /\ pc = "returned" /\ Mode = "playlist"
    /\ Len(tracks) > NItems
    /\ \/ hist.raised # {}
       \/ \E k \in 1..Len(tracks) : tracks[k].was_skipped
====
